---- MODULE Spec2Model ----
(***************************************************************************)
(* Model of the HTTP/2 server connection engine of fluke                   *)
(* (crates/fluke/src/h2/server.rs): serve / ServerContext::work, the       *)
(* deframe_loop task, the process_loop task (process_frame, read_headers,  *)
(* handle_event, write_frame, rst) and the per-stream request handlers     *)
(* that feed the event channel.                                            *)
(***************************************************************************)
EXTENDS Integers, Sequences, FiniteSets, TLC

(***************************************************************************)
(* Bounds of the model.                                                    *)
(***************************************************************************)
\* number of frame headers the Deframer reads before the peer stops sending
MaxFrames == 2
\* number of BodyChunk events one handler sends
MaxChunks == 1

\* number of frame headers the Deframer reads in the specifications whose peer
\* only sends frames of one kind of scenario (SpecStreams)
MaxStreamFrames == 3
MaxPairFrames == 2
MaxResetFrames == 2
MaxWindowFrames == 2
MaxPaddedFrames == 2
MaxOrderFrames == 3
MaxBlockFrames == 3
MaxBodyChunks == 32

\* number of regions of the modelled buffer pool (BUF_POOL has 4096)
NumBuf == 2
\* number of calls the thread makes into the buffer pool
MaxPoolCalls == 8

(***************************************************************************)
(* Program constants.                                                      *)
(***************************************************************************)
\* ServerConf::default().max_streams
DefaultMaxStreams == 32
\* capacity of the (Frame, Roll) channel between Deframer and Processor
FrameChanCap == 32
\* capacity of the H2Event channel (event bridge)
EventChanCap == 32
\* capacity of a stream's incoming (body) channel
IncomingChanCap == 1
\* Settings::default().max_frame_size, loaded into the shared atomic
DefaultMaxFrameSize == 16384
\* StreamId::CONNECTION
CONNECTION == 0
\* i16::MAX, the largest reference count of a region (ref_counts: Vec<i16>)
I16Max == 32767

VARIABLES
    max_concurrent_streams, \* state.self_settings.max_concurrent_streams
    streams,                \* state.streams: stream id -> StreamState
    last_stream_id,         \* state.last_stream_id
    goaway_recv,            \* ServerContext::goaway_recv
    peer_settings,          \* state.peer_settings
    out,                    \* frames written to transport_w, in order
    frameCh,                \* the (Frame, Roll) mpsc channel
    nread,                  \* frame headers read so far by the Deframer
    dres,                   \* deframe_loop: "running" or its result
    ppc,                    \* process_loop position
    pres,                   \* process_loop result ("none" while running)
    rh,                     \* read_headers locals while reassembling
    pend,                   \* the incoming.send the Processor is suspended on
    evCh,                   \* the H2Event mpsc channel
    incoming,               \* stream id -> body channel (queue, receiver alive)
    handlers,               \* stream id -> state of the spawned handler
    hblock,                 \* history: the latest header block (fragments as
                            \* taken from frameCh, byte strings given to
                            \* hpack_dec.decode_with_cb)
    wpc,                    \* position of serve / work
    wres,                   \* result of serve ("none" while running)
    goaway_err,             \* work's goaway_err local
    inner,                  \* BUF_POOL.inner: None, or free and ref_counts
    bufmuts,                \* region index -> number of live BufMut handles
    bufs,                   \* region index -> number of live Buf handles
    pool_res,               \* outcome of the latest call into the pool
    overflow_checks,        \* whether the build panics on integer overflow
    pool_calls              \* number of calls made into the pool so far

connVars == <<max_concurrent_streams, streams, last_stream_id, goaway_recv,
              peer_settings>>
dfVars == <<frameCh, nread, dres>>
procVars == <<ppc, pres, rh, pend>>
appVars == <<evCh, incoming, handlers>>
workVars == <<wpc, wres, goaway_err>>
poolVars == <<inner, bufmuts, bufs, pool_res, overflow_checks, pool_calls>>
vars == <<max_concurrent_streams, streams, last_stream_id, goaway_recv,
          peer_settings, out,
          frameCh, nread, dres, ppc, pres, rh, pend, evCh, incoming, handlers,
          hblock, wpc, wres, goaway_err,
          inner, bufmuts, bufs, pool_res, overflow_checks, pool_calls>>

NoRh == [active |-> FALSE]
NoPend == [active |-> FALSE]

(***************************************************************************)
(* Frames.  A frame is its 9-byte header (type, flags, length, stream id)  *)
(* and the payload bytes that follow it.                                   *)
(***************************************************************************)
Frame(ty, flags, sid, payload) ==
    [ty |-> ty, flags |-> flags, len |-> Len(payload), sid |-> sid,
     payload |-> payload]

\* a frame header announcing more payload than max_frame_size allows
Oversized(ty, sid) ==
    [ty |-> ty, flags |-> {}, len |-> DefaultMaxFrameSize + 1, sid |-> sid,
     payload |-> <<>>]

RECURSIVE Concat(_)
Concat(frags) ==
    IF frags = <<>> THEN <<>> ELSE Head(frags) \o Concat(Tail(frags))

Remove(f, k) == [x \in DOMAIN f \ {k} |-> f[x]]

Put(f, k, v) == [x \in DOMAIN f \cup {k} |-> IF x = k THEN v ELSE f[x]]

(***************************************************************************)
(* Error taxonomy.  as_known_error_code lives in h2/types.rs; the mapping  *)
(* below follows the error codes named by the specification.               *)
(***************************************************************************)
ConnErrorCode(err) ==
    CASE err \in {"FrameTooLarge", "PaddedFrameEmpty", "PingFrameInvalidLength",
                  "SettingsAckWithPayload", "WindowUpdateInvalidLength"}
            -> "FRAME_SIZE_ERROR"
      [] err = "CompressionError" -> "COMPRESSION_ERROR"
      [] err = "StreamClosed" -> "STREAM_CLOSED"
      [] err = "Internal" -> "INTERNAL_ERROR"
      [] OTHER -> "PROTOCOL_ERROR"

StreamErrorCode(e) ==
    CASE e = "RefusedStream" -> "REFUSED_STREAM"
      [] e = "StreamClosed" -> "STREAM_CLOSED"
      [] e \in {"InvalidPriorityFrameSize", "InvalidRstStreamFrameSize"}
            -> "FRAME_SIZE_ERROR"
      [] OTHER -> "PROTOCOL_ERROR"

(***************************************************************************)
(* HPACK.  The codec is an external collaborator; a header block is        *)
(* modelled as one byte per header pair:                                   *)
(*   1 :method   2 :scheme   3 :path (non-empty)   4 :authority            *)
(*   5 a regular header      6 :path with an empty value                   *)
(* and any other byte makes the decoder fail.  The callback is the         *)
(* on_header_pair closure of read_headers.                                 *)
(***************************************************************************)
NoHeadersSeen == [method |-> FALSE, scheme |-> FALSE, path |-> FALSE,
                  authority |-> FALSE]

\* on_header_pair for one decoded pair: whether the closure panics, and the
\* pseudo-headers seen afterwards
OnHeaderPair(b, hot, seen) ==
    IF b = 5 THEN [panic |-> FALSE, seen |-> seen]
    ELSE IF hot = "Trailers" THEN [panic |-> TRUE, seen |-> seen]
    ELSE IF b = 1
    THEN [panic |-> seen.method, seen |-> [seen EXCEPT !.method = TRUE]]
    ELSE IF b = 2
    THEN [panic |-> seen.scheme, seen |-> [seen EXCEPT !.scheme = TRUE]]
    ELSE IF b = 3
    THEN [panic |-> seen.path, seen |-> [seen EXCEPT !.path = TRUE]]
    ELSE IF b = 6 THEN [panic |-> TRUE, seen |-> seen]
    ELSE [panic |-> seen.authority, seen |-> [seen EXCEPT !.authority = TRUE]]

\* hpack_dec.decode_with_cb(bytes, on_header_pair)
RECURSIVE DecodeWithCb(_, _, _)
DecodeWithCb(bytes, hot, seen) ==
    IF bytes = <<>> THEN [res |-> "ok", seen |-> seen]
    ELSE IF Head(bytes) \notin 1..6
    THEN [res |-> "CompressionError", seen |-> seen]
    ELSE LET r == OnHeaderPair(Head(bytes), hot, seen) IN
         IF r.panic THEN [res |-> "panic", seen |-> seen]
         ELSE DecodeWithCb(Tail(bytes), hot, r.seen)

\* PrioritySpec::parse: 1 bit exclusive + 31 bit stream dependency, 1 byte
\* weight; "error" when fewer than 5 bytes are there
PrioritySpecParse(payload) ==
    IF Len(payload) < 5 THEN [ok |-> FALSE]
    ELSE [ok |-> TRUE,
          stream_dependency |->
              (payload[1] % 128) * 16777216 + payload[2] * 65536
              + payload[3] * 256 + payload[4],
          rest |-> SubSeq(payload, 6, Len(payload))]

\* StreamId::is_server_initiated
IsServerInitiated(sid) == sid % 2 = 0

(***************************************************************************)
(* The Processor.  Its handlers are written as functions of a context c:   *)
(* the state the Processor owns (ConnState, the transport write half, the  *)
(* senders it holds) plus where control goes next:                         *)
(*   ctl = "loop"          back in process_loop's select                   *)
(*   ctl = "read_headers"  suspended on rx.recv() inside read_headers      *)
(*   ctl = "send"          suspended on incoming.send(..)                  *)
(*   ctl = "return"        process_loop returns err ("Ok" or an error)     *)
(*   ctl = "panic"         the task panics                                 *)
(***************************************************************************)
Cx == [streams |-> streams, last_stream_id |-> last_stream_id,
       goaway_recv |-> goaway_recv, peer_settings |-> peer_settings,
       out |-> out, incoming |-> incoming,
       handlers |-> handlers, hblock |-> hblock, ctl |-> "loop",
       err |-> "none", rh |-> NoRh, pend |-> NoPend]

Fail(c, e) == [c EXCEPT !.ctl = "return", !.err = e]

Panic(c) == [c EXCEPT !.ctl = "panic"]

\* std::mem::take(ss) on the entry of stream sid: the state is moved out and
\* StreamState::default(), which is Transition, is left in its place
MemTake(ss, sid) == [ss EXCEPT ![sid] = "Transition"]

\* variant: a DATA frame with END_STREAM removes the stream whatever its state
WriteFrameTransition_AlwaysRemoves(ss, frame) ==
    IF frame.ty = "Data" /\ "EndStream" \in frame.flags
       /\ frame.sid \in DOMAIN ss
    THEN Remove(ss, frame.sid)
    ELSE ss

\* variant: the state taken out of an Open stream is not put back
WriteFrameTransition_NoPlace(ss, frame) ==
    IF frame.ty = "Data" /\ "EndStream" \in frame.flags
       /\ frame.sid \in DOMAIN ss
    THEN IF ss[frame.sid] = "Open"
         THEN MemTake(ss, frame.sid)
         ELSE Remove(ss, frame.sid)
    ELSE ss

\* the stream-state part of write_frame: a DATA frame with END_STREAM moves
\* an Open stream to HalfClosedLocal (take, then place) and removes any
\* other stream
WriteFrameTransition(ss, frame) ==
    IF frame.ty = "Data" /\ "EndStream" \in frame.flags
       /\ frame.sid \in DOMAIN ss
    THEN IF ss[frame.sid] = "Open"
         THEN [MemTake(ss, frame.sid) EXCEPT ![frame.sid] = "HalfClosedLocal"]
         ELSE Remove(ss, frame.sid)
    ELSE ss

\* write_frame(frame, payload)
WriteFrame(c, frame) ==
    [c EXCEPT !.streams = WriteFrameTransition(c.streams, frame),
              !.out = Append(c.out, frame)]

\* variant: the stream is dropped but no RST_STREAM frame is written
Rst_NoFrame(c, sid, e) == [c EXCEPT !.streams = Remove(c.streams, sid)]

\* rst(stream_id, e)
Rst(c, sid, e) ==
    WriteFrame([c EXCEPT !.streams = Remove(c.streams, sid)],
               Frame("RstStream", {}, sid, <<StreamErrorCode(e)>>))

\* incoming.send(item).await on the body channel of stream sid; `after` names
\* the code that follows the await
SendIncoming(c, sid, item, after) ==
    [c EXCEPT !.ctl = "send",
              !.pend = [active |-> TRUE, sid |-> sid, item |-> item,
                        after |-> after]]

\* variant: DATA for a HalfClosedRemote stream is a connection error
ProcessData_ClosedIsConnError(c, f) ==
    IF f.sid \notin DOMAIN c.streams THEN Fail(c, "StreamClosed")
    ELSE IF c.streams[f.sid] \in {"Open", "HalfClosedLocal"}
    THEN SendIncoming(c, f.sid, <<"Piece", f.payload>>,
                      IF "EndStream" \in f.flags THEN "end_stream" ELSE "none")
    ELSE IF c.streams[f.sid] = "Transition" THEN Panic(c)
    ELSE Fail(c, "StreamClosed")

\* variant: DATA for a stream that is not in the table is dropped
ProcessData_UnknownIgnored(c, f) ==
    IF f.sid \notin DOMAIN c.streams THEN c
    ELSE IF c.streams[f.sid] \in {"Open", "HalfClosedLocal"}
    THEN SendIncoming(c, f.sid, <<"Piece", f.payload>>,
                      IF "EndStream" \in f.flags THEN "end_stream" ELSE "none")
    ELSE IF c.streams[f.sid] = "Transition" THEN Panic(c)
    ELSE Rst(c, f.sid, "StreamClosed")

\* variant: DATA with END_STREAM is forwarded like DATA without it
ProcessData_IgnoresEndStream(c, f) ==
    IF f.sid \notin DOMAIN c.streams THEN Fail(c, "StreamClosed")
    ELSE IF c.streams[f.sid] \in {"Open", "HalfClosedLocal"}
    THEN SendIncoming(c, f.sid, <<"Piece", f.payload>>, "none")
    ELSE IF c.streams[f.sid] = "Transition" THEN Panic(c)
    ELSE Rst(c, f.sid, "StreamClosed")

\* FrameType::Data arm of process_frame, up to the await on incoming.send
ProcessData(c, f) ==
    IF f.sid \notin DOMAIN c.streams THEN Fail(c, "StreamClosed")
    ELSE IF c.streams[f.sid] \in {"Open", "HalfClosedLocal"}
    THEN SendIncoming(c, f.sid, <<"Piece", f.payload>>,
                      IF "EndStream" \in f.flags THEN "end_stream" ELSE "none")
    ELSE IF c.streams[f.sid] = "Transition" THEN Panic(c)
    ELSE Rst(c, f.sid, "StreamClosed")

\* variant: END_STREAM on DATA does not change the stream state
AfterSend_NoEndStream(c, sid, after) ==
    CASE after = "trailers" -> [c EXCEPT !.streams = Remove(c.streams, sid)]
      [] OTHER -> c

\* what follows a completed incoming.send
AfterSend(c, sid, after) ==
    CASE after = "end_stream" ->
            IF c.streams[sid] = "Open"
            THEN [c EXCEPT !.streams = [MemTake(@, sid) EXCEPT
                                          ![sid] = "HalfClosedRemote"]]
            ELSE [c EXCEPT !.streams = Remove(c.streams, sid)]
      [] after = "trailers" -> [c EXCEPT !.streams = Remove(c.streams, sid)]
      [] OTHER -> c

\* variant: only the last fragment reaches the decoder
HeaderBlockBytes_LastOnly(fragments) == fragments[Len(fragments)]

\* the bytes read_headers hands to the decoder: the single payload, or the
\* fragments copied one after the other into a Vec
HeaderBlockBytes(fragments) == Concat(fragments)

\* state of a freshly spawned handler: its H2Encoder and its H2Body
NewHandler ==
    [enc |-> "ExpectResponseHeaders", chunks |-> 0, returned |-> FALSE]

\* state of a handler whose future has completed
ReturnedHandler ==
    [enc |-> "Dropped", chunks |-> 0, returned |-> TRUE]

\* variant: a header block read in Skip mode is decoded and acted upon
FinishHeaders_NoSkip(c, hot, mode, end_stream, sid, fragments) ==
    LET bytes == HeaderBlockBytes(fragments)
        d == DecodeWithCb(bytes, hot, NoHeadersSeen)
        c1 == [c EXCEPT !.hblock.done = TRUE,
                        !.hblock.decoded = Append(@, bytes)]
    IN  IF d.res = "panic" THEN Panic(c1)
        ELSE IF d.res = "CompressionError" THEN Fail(c1, "CompressionError")
        ELSE IF hot = "Headers"
        THEN IF ~(d.seen.method /\ d.seen.scheme /\ d.seen.path)
             THEN Panic(c1)
             ELSE [c1 EXCEPT
                     !.streams = Put(@, sid, IF end_stream
                                             THEN "HalfClosedRemote"
                                             ELSE "Open"),
                     !.incoming = Put(@, sid, <<>>),
                     !.handlers = Put(@, sid, NewHandler)]
        ELSE IF sid \in DOMAIN c1.streams /\ c1.streams[sid] = "Open"
        THEN SendIncoming(c1, sid, <<"Trailers", bytes>>, "trailers")
        ELSE Panic(c1)

\* read_headers from the end of the header block on (lines 927-1136)
FinishHeaders(c, hot, mode, end_stream, sid, fragments) ==
    LET cd == [c EXCEPT !.hblock.done = TRUE] IN
    IF mode = "Skip" THEN cd
    ELSE
    LET bytes == HeaderBlockBytes(fragments)
        d == DecodeWithCb(bytes, hot, NoHeadersSeen)
        c1 == [cd EXCEPT !.hblock.decoded = Append(@, bytes)]
    IN  IF d.res = "panic" THEN Panic(c1)
        ELSE IF d.res = "CompressionError" THEN Fail(c1, "CompressionError")
        ELSE IF hot = "Headers"
        THEN IF ~(d.seen.method /\ d.seen.scheme /\ d.seen.path)
             THEN Panic(c1)
             ELSE [c1 EXCEPT
                     !.streams = Put(@, sid, IF end_stream
                                             THEN "HalfClosedRemote"
                                             ELSE "Open"),
                     !.incoming = Put(@, sid, <<>>),
                     !.handlers = Put(@, sid, NewHandler)]
        ELSE IF sid \in DOMAIN c1.streams /\ c1.streams[sid] = "Open"
        THEN SendIncoming(c1, sid, <<"Trailers", bytes>>, "trailers")
        ELSE Panic(c1)

\* read_headers up to its first rx.recv() (lines 866-885)
ReadHeaders(c, hot, mode, flags, sid, payload) ==
    LET c1 == [c EXCEPT !.hblock = [n |-> c.hblock.n + 1, sid |-> sid,
                                    hot |-> hot, mode |-> mode,
                                    frags |-> <<payload>>, decoded |-> <<>>,
                                    done |-> FALSE]]
    IN  IF "EndHeaders" \in flags
        THEN FinishHeaders(c1, hot, mode, "EndStream" \in flags, sid,
                           <<payload>>)
        ELSE [c1 EXCEPT !.ctl = "read_headers",
                        !.rh = [active |-> TRUE, hot |-> hot, mode |-> mode,
                                end_stream |-> "EndStream" \in flags,
                                stream_id |-> sid,
                                fragments |-> <<payload>>]]

\* one turn of the continuation loop of read_headers: rx.recv() gave f
ReadContinuation(c, r, f) ==
    IF r.stream_id # f.sid THEN Fail(c, "ExpectedContinuationForStream")
    ELSE IF f.ty # "Continuation" THEN Fail(c, "ExpectedContinuationFrame")
    ELSE
    LET frs == Append(r.fragments, f.payload)
        c1 == [c EXCEPT !.hblock.frags = Append(@, f.payload)]
    IN  IF "EndHeaders" \in f.flags
        THEN FinishHeaders(c1, r.hot, r.mode, r.end_stream, r.stream_id, frs)
        ELSE [c1 EXCEPT !.ctl = "read_headers",
                        !.rh = [r EXCEPT !.fragments = frs]]

\* variant: an id below last_stream_id is reported like an equal one
CmpLastStreamId_LessIsEqual(sid, last) ==
    IF sid <= last THEN "Equal" ELSE "Greater"

\* variant: an id equal to last_stream_id counts as a new, greater id
CmpLastStreamId_NoEqual(sid, last) ==
    IF sid < last THEN "Less" ELSE "Greater"

\* variant: the comparison is not made, every id counts as greater
CmpLastStreamId_AlwaysGreater(sid, last) == "Greater"

\* the stream-id comparison of the HEADERS arm (frame.stream_id.cmp)
CmpLastStreamId(sid, last) ==
    IF sid < last THEN "Less" ELSE IF sid = last THEN "Equal" ELSE "Greater"

\* variant: the capacity check compares the current size only
WouldExceedMaxStreams_OffByOne(ss, max) == Cardinality(DOMAIN ss) > max

\* the capacity check of the HEADERS arm
WouldExceedMaxStreams(ss, max) == Cardinality(DOMAIN ss) + 1 > max

\* variant: last_stream_id is not updated on acceptance
AcceptStream_NoUpdate(c, sid) == c

\* accepting the stream: self.state.last_stream_id = frame.stream_id
AcceptStream(c, sid) == [c EXCEPT !.last_stream_id = sid]

\* FrameType::Headers arm of process_frame
ProcessHeaders(c, f) ==
    LET pri == "Priority" \in f.flags
        ps == PrioritySpecParse(f.payload)
    IN
    IF pri /\ ~ps.ok THEN Fail(c, "Internal")
    ELSE IF pri /\ ps.stream_dependency = f.sid
    THEN Fail(c, "HeadersInvalidPriority")
    ELSE
    LET payload == IF pri THEN ps.rest ELSE f.payload IN
    IF f.sid \notin DOMAIN c.streams
    THEN IF IsServerInitiated(f.sid) THEN Fail(c, "ClientSidShouldBeOdd")
         ELSE
         LET ord == CmpLastStreamId(f.sid, c.last_stream_id) IN
         IF ord = "Less"
         THEN Fail(c, "ClientSidShouldBeNumericallyIncreasing")
         ELSE IF ord = "Equal" THEN Fail(c, "StreamClosed")
         ELSE IF WouldExceedMaxStreams(c.streams, max_concurrent_streams)
         THEN ReadHeaders(Rst(c, f.sid, "RefusedStream"), "Headers", "Skip",
                          f.flags, f.sid, payload)
         ELSE ReadHeaders(AcceptStream(c, f.sid), "Headers", "Process",
                          f.flags, f.sid, payload)
    ELSE IF c.streams[f.sid] \in {"Open", "HalfClosedLocal"}
    THEN IF "EndStream" \in f.flags
         THEN ReadHeaders(c, "Trailers", "Process", f.flags, f.sid, payload)
         ELSE ReadHeaders(Rst(c, f.sid, "TrailersNotEndStream"), "Trailers",
                          "Skip", f.flags, f.sid, payload)
    ELSE IF c.streams[f.sid] = "Transition" THEN Panic(c)
    ELSE Fail(c, "StreamClosed")

U32(b1, b2, b3, b4) == b1 * 16777216 + b2 * 65536 + b3 * 256 + b4

\* Settings::default(), the fields the engine reads
DefaultSettings == [header_table_size |-> 4096,
                    max_frame_size |-> DefaultMaxFrameSize]

\* Settings::parse under nom::combinator::complete: 6-byte entries
\* (u16 identifier, u32 value) applied in order over the defaults
RECURSIVE SettingsParse(_, _)
SettingsParse(payload, acc) ==
    IF payload = <<>> THEN [ok |-> TRUE, settings |-> acc]
    ELSE IF Len(payload) < 6 THEN [ok |-> FALSE]
    ELSE LET id == payload[1] * 256 + payload[2]
             v == U32(payload[3], payload[4], payload[5], payload[6])
             rest == SubSeq(payload, 7, Len(payload))
         IN  SettingsParse(rest,
                 IF id = 1 THEN [acc EXCEPT !.header_table_size = v]
                 ELSE IF id = 5 THEN [acc EXCEPT !.max_frame_size = v]
                 ELSE acc)

\* FrameType::Priority arm of process_frame
ProcessPriority(c, f) ==
    LET ps == PrioritySpecParse(f.payload) IN
    IF ~ps.ok THEN Rst(c, f.sid, "InvalidPriorityFrameSize")
    ELSE IF ps.stream_dependency = f.sid
    THEN Fail(c, "HeadersInvalidPriority")
    ELSE c

\* variant: the peer's RST_STREAM removes the stream without telling the
\* handler
ProcessRstStream_NoNotify(c, f) ==
    IF f.len # 4 THEN Rst(c, f.sid, "InvalidRstStreamFrameSize")
    ELSE IF f.sid \notin DOMAIN c.streams
    THEN Fail(c, "RstStreamForUnknownStream")
    ELSE [c EXCEPT !.streams = Remove(c.streams, f.sid)]

\* FrameType::RstStream arm of process_frame, up to the await on
\* incoming.send
ProcessRstStream(c, f) ==
    IF f.len # 4 THEN Rst(c, f.sid, "InvalidRstStreamFrameSize")
    ELSE IF f.sid \notin DOMAIN c.streams
    THEN Fail(c, "RstStreamForUnknownStream")
    ELSE LET c1 == [c EXCEPT !.streams = Remove(c.streams, f.sid)] IN
         IF c.streams[f.sid] \in {"Open", "HalfClosedLocal"}
         THEN SendIncoming(c1, f.sid, <<"Err", <<>>>>, "none")
         ELSE IF c.streams[f.sid] = "Transition" THEN Panic(c1)
         ELSE c1

\* variant: the settings are acknowledged but not applied
ProcessSettings_NotApplied(c, f) ==
    IF f.sid # CONNECTION THEN Fail(c, "SettingsWithNonZeroStreamId")
    ELSE IF "Ack" \in f.flags
    THEN IF f.payload # <<>> THEN Fail(c, "SettingsAckWithPayload") ELSE c
    ELSE LET p == SettingsParse(f.payload, DefaultSettings) IN
         IF ~p.ok THEN Fail(c, "ReadError")
         ELSE WriteFrame(c, Frame("Settings", {"Ack"}, CONNECTION, <<>>))

\* FrameType::Settings arm of process_frame
ProcessSettings(c, f) ==
    IF f.sid # CONNECTION THEN Fail(c, "SettingsWithNonZeroStreamId")
    ELSE IF "Ack" \in f.flags
    THEN IF f.payload # <<>> THEN Fail(c, "SettingsAckWithPayload") ELSE c
    ELSE LET p == SettingsParse(f.payload, DefaultSettings) IN
         IF ~p.ok THEN Fail(c, "ReadError")
         ELSE WriteFrame([c EXCEPT !.peer_settings = p.settings],
                         Frame("Settings", {"Ack"}, CONNECTION, <<>>))

\* variant: the pong carries a fresh payload instead of the inbound one
ProcessPing_FreshPayload(c, f) ==
    IF f.sid # CONNECTION THEN Fail(c, "PingFrameWithNonZeroStreamId")
    ELSE IF f.len # 8 THEN Fail(c, "PingFrameInvalidLength")
    ELSE IF "Ack" \in f.flags THEN c
    ELSE WriteFrame(c, Frame("Ping", {"Ack"}, CONNECTION,
                             <<0, 0, 0, 0, 0, 0, 0, 0>>))

\* FrameType::Ping arm of process_frame
ProcessPing(c, f) ==
    IF f.sid # CONNECTION THEN Fail(c, "PingFrameWithNonZeroStreamId")
    ELSE IF f.len # 8 THEN Fail(c, "PingFrameInvalidLength")
    ELSE IF "Ack" \in f.flags THEN c
    ELSE WriteFrame(c, Frame("Ping", {"Ack"}, CONNECTION, f.payload))

\* FrameType::GoAway arm of process_frame
ProcessGoAway(c, f) ==
    IF f.sid # CONNECTION THEN Fail(c, "GoAwayWithNonZeroStreamId")
    ELSE [c EXCEPT !.goaway_recv = TRUE]

\* variant: an increment of 0 is accepted
ProcessWindowUpdate_ZeroAllowed(c, f) ==
    IF Len(f.payload) # 4 THEN Fail(c, "WindowUpdateInvalidLength")
    ELSE IF f.sid = CONNECTION THEN c
    ELSE IF f.sid \notin DOMAIN c.streams
    THEN Fail(c, "WindowUpdateForUnknownStream")
    ELSE c

\* FrameType::WindowUpdate arm of process_frame
ProcessWindowUpdate(c, f) ==
    IF Len(f.payload) # 4 THEN Fail(c, "WindowUpdateInvalidLength")
    ELSE IF U32(f.payload[1] % 128, f.payload[2], f.payload[3],
                f.payload[4]) = 0
    THEN Fail(c, "WindowUpdateZeroIncrement")
    ELSE IF f.sid = CONNECTION THEN c
    ELSE IF f.sid \notin DOMAIN c.streams
    THEN Fail(c, "WindowUpdateForUnknownStream")
    ELSE c

\* variant: a frame of unknown type is a connection error
ProcessFrame_UnknownIsError(c, f) ==
    CASE f.ty = "Data" -> ProcessData(c, f)
      [] f.ty = "Headers" -> ProcessHeaders(c, f)
      [] f.ty = "Priority" -> ProcessPriority(c, f)
      [] f.ty = "RstStream" -> ProcessRstStream(c, f)
      [] f.ty = "Settings" -> ProcessSettings(c, f)
      [] f.ty = "PushPromise" -> Fail(c, "ClientSentPushPromise")
      [] f.ty = "Ping" -> ProcessPing(c, f)
      [] f.ty = "GoAway" -> ProcessGoAway(c, f)
      [] f.ty = "WindowUpdate" -> ProcessWindowUpdate(c, f)
      [] f.ty = "Continuation" -> Fail(c, "UnexpectedContinuationFrame")
      [] OTHER -> Fail(c, "Internal")

\* process_frame(frame, payload, rx)
ProcessFrame(c, f) ==
    CASE f.ty = "Data" -> ProcessData(c, f)
      [] f.ty = "Headers" -> ProcessHeaders(c, f)
      [] f.ty = "Priority" -> ProcessPriority(c, f)
      [] f.ty = "RstStream" -> ProcessRstStream(c, f)
      [] f.ty = "Settings" -> ProcessSettings(c, f)
      [] f.ty = "PushPromise" -> Fail(c, "ClientSentPushPromise")
      [] f.ty = "Ping" -> ProcessPing(c, f)
      [] f.ty = "GoAway" -> ProcessGoAway(c, f)
      [] f.ty = "WindowUpdate" -> ProcessWindowUpdate(c, f)
      [] f.ty = "Continuation" -> Fail(c, "UnexpectedContinuationFrame")
      [] OTHER -> c

\* variant: BodyEnd writes nothing
HandleEvent_NoBodyEnd(c, ev) ==
    CASE ev.payload = "Headers" ->
            WriteFrame(c, Frame("Headers", {"EndHeaders"}, ev.stream_id,
                                ev.data))
      [] ev.payload = "BodyChunk" ->
            WriteFrame(c, Frame("Data", {}, ev.stream_id, ev.data))
      [] OTHER -> c

\* handle_event(ev)
HandleEvent(c, ev) ==
    CASE ev.payload = "Headers" ->
            WriteFrame(c, Frame("Headers", {"EndHeaders"}, ev.stream_id,
                                ev.data))
      [] ev.payload = "BodyChunk" ->
            WriteFrame(c, Frame("Data", {}, ev.stream_id, ev.data))
      [] OTHER ->
            WriteFrame(c, Frame("Data", {"EndStream"}, ev.stream_id, <<>>))

(***************************************************************************)
(* The Deframer.                                                           *)
(***************************************************************************)
\* variant: the pad length byte is removed but the trailing padding is kept
Deframe_KeepsPadding(f, max_frame_size) ==
    IF f.len > max_frame_size THEN [ok |-> FALSE, err |-> "FrameTooLarge"]
    ELSE IF f.ty \in {"Data", "Headers"} /\ "Padded" \in f.flags
    THEN IF f.payload = <<>> THEN [ok |-> FALSE, err |-> "PaddedFrameEmpty"]
         ELSE LET padding_length == f.payload[1]
                  payload == Tail(f.payload)
              IN  IF Len(payload) < padding_length
                  THEN [ok |-> FALSE, err |-> "PaddedFrameTooShort"]
                  ELSE [ok |-> TRUE, frame |-> [f EXCEPT !.payload = payload]]
    ELSE [ok |-> TRUE, frame |-> f]

\* deframe_loop from the frame-size check to the padding strip, for a frame
\* header f read from the transport: the (frame, payload) pair it sends, or
\* the error it returns
Deframe(f, max_frame_size) ==
    IF f.len > max_frame_size THEN [ok |-> FALSE, err |-> "FrameTooLarge"]
    ELSE IF f.ty \in {"Data", "Headers"} /\ "Padded" \in f.flags
    THEN IF f.payload = <<>> THEN [ok |-> FALSE, err |-> "PaddedFrameEmpty"]
         ELSE LET padding_length == f.payload[1]
                  payload == Tail(f.payload)
              IN  IF Len(payload) < padding_length
                  THEN [ok |-> FALSE, err |-> "PaddedFrameTooShort"]
                  ELSE [ok |-> TRUE,
                        frame |-> [f EXCEPT !.payload =
                            SubSeq(payload, 1, Len(payload) - padding_length)]]
    ELSE [ok |-> TRUE, frame |-> f]

\* the deframe_task arm of the select in work: what work does once
\* deframe_loop has returned res
DeframeTaskFinished(res) ==
    /\ dres' = res
    /\ IF res = "ReadError"
       THEN wpc' = "done" /\ wres' = "Err"
       ELSE wpc' = "await_process" /\ wres' = wres
    /\ UNCHANGED goaway_err

\* one turn of deframe_loop for a frame the peer sent
DeframeFrame(frames) ==
    /\ wpc = "select" /\ dres = "running"
    /\ nread < MaxFrames
    /\ Len(frameCh) < FrameChanCap
    /\ \E f \in frames :
          LET d == Deframe(f, DefaultMaxFrameSize) IN
          /\ nread' = nread + 1
          /\ IF d.ok
             THEN /\ frameCh' = Append(frameCh, d.frame)
                  /\ UNCHANGED <<dres, workVars>>
             ELSE /\ frameCh' = frameCh
                  /\ DeframeTaskFinished(d.err)
    /\ UNCHANGED <<poolVars, connVars, out, procVars, appVars, hblock>>

\* one turn of deframe_loop for a frame the peer sent, for a peer that sends
\* at most max frames
DeframeUpTo(frames, max) ==
    /\ wpc = "select" /\ dres = "running"
    /\ nread < max
    /\ Len(frameCh) < FrameChanCap
    /\ \E f \in frames :
          LET d == Deframe(f, DefaultMaxFrameSize) IN
          /\ nread' = nread + 1
          /\ IF d.ok
             THEN /\ frameCh' = Append(frameCh, d.frame)
                  /\ UNCHANGED <<dres, workVars>>
             ELSE /\ frameCh' = frameCh
                  /\ DeframeTaskFinished(d.err)
    /\ UNCHANGED <<poolVars, connVars, out, procVars, appVars, hblock>>

\* the peer hung up: read_and_parse gives None and deframe_loop returns Ok
DeframeEof ==
    /\ wpc = "select" /\ dres = "running"
    /\ DeframeTaskFinished("Ok")
    /\ UNCHANGED <<poolVars, connVars, out, frameCh, nread, procVars, appVars, hblock>>

\* the transport read fails: deframe_loop returns ReadError; a ConnectionReset
\* is ignored by work, any other error is returned
DeframeReadError ==
    /\ wpc = "select" /\ dres = "running"
    /\ \E kind \in {"ReadError", "ReadError(ConnectionReset)"} :
          DeframeTaskFinished(kind)
    /\ UNCHANGED <<poolVars, connVars, out, frameCh, nread, procVars, appVars, hblock>>

(***************************************************************************)
(* The Processor task and the select of work that polls it.                *)
(***************************************************************************)
\* the process_task outcome as work sees it: inside the select an error
\* becomes goaway_err; after the deframe_task arm was taken an error is
\* returned at once.  When work returns Ok, serve shuts the transport down
\* and returns Ok.
ProcessTaskFinished(err) ==
    IF err = "Ok"
    THEN wpc' = "done" /\ wres' = "Ok" /\ UNCHANGED goaway_err
    ELSE IF wpc = "select"
    THEN wpc' = "goaway" /\ goaway_err' = err /\ UNCHANGED wres
    ELSE wpc' = "done" /\ wres' = "Err" /\ UNCHANGED goaway_err

\* the Processor moves to context c
Apply(c) ==
    /\ streams' = c.streams
    /\ last_stream_id' = c.last_stream_id
    /\ goaway_recv' = c.goaway_recv
    /\ peer_settings' = c.peer_settings
    /\ out' = c.out
    /\ incoming' = c.incoming
    /\ handlers' = c.handlers
    /\ hblock' = c.hblock
    /\ rh' = c.rh
    /\ pend' = c.pend
    /\ UNCHANGED <<poolVars, max_concurrent_streams>>
    /\ CASE c.ctl = "return" ->
                ppc' = "done" /\ pres' = c.err /\ ProcessTaskFinished(c.err)
         [] c.ctl = "panic" ->
                /\ ppc' = "panicked" /\ pres' = "panic"
                /\ wpc' = "done" /\ wres' = "Panic" /\ UNCHANGED goaway_err
         [] OTHER -> ppc' = c.ctl /\ pres' = pres /\ UNCHANGED workVars

ProcessPolled == wpc \in {"select", "await_process"}

\* variant: the Processor takes the frame queued last, not the one queued
\* first
ProcessLoopFrame_TakesLast ==
    /\ ProcessPolled /\ ppc = "loop"
    /\ frameCh # <<>>
    /\ Apply(ProcessFrame(Cx, frameCh[Len(frameCh)]))
    /\ frameCh' = SubSeq(frameCh, 1, Len(frameCh) - 1)
    /\ UNCHANGED <<nread, dres, evCh>>

\* process_loop: rx.recv() gives a frame
ProcessLoopFrame ==
    /\ ProcessPolled /\ ppc = "loop"
    /\ frameCh # <<>>
    /\ Apply(ProcessFrame(Cx, Head(frameCh)))
    /\ frameCh' = Tail(frameCh)
    /\ UNCHANGED <<nread, dres, evCh>>

\* variant: a closed frame channel is reported as an error
ProcessLoopHangup_Error ==
    /\ ProcessPolled /\ ppc = "loop"
    /\ frameCh = <<>> /\ dres # "running"
    /\ Apply(Fail(Cx, "Internal"))
    /\ UNCHANGED <<dfVars, evCh>>

\* process_loop: rx.recv() gives None (the Deframer dropped its sender)
ProcessLoopHangup ==
    /\ ProcessPolled /\ ppc = "loop"
    /\ frameCh = <<>> /\ dres # "running"
    /\ Apply(Fail(Cx, "Ok"))
    /\ UNCHANGED <<dfVars, evCh>>

\* variant: events are also taken while read_headers waits for a frame
ProcessLoopEvent_DuringReassembly ==
    /\ ProcessPolled /\ ppc \in {"loop", "read_headers"}
    /\ frameCh = <<>> /\ dres = "running"
    /\ evCh # <<>>
    /\ Apply([HandleEvent(Cx, Head(evCh)) EXCEPT !.ctl = ppc, !.rh = rh])
    /\ evCh' = Tail(evCh)
    /\ UNCHANGED dfVars

\* process_loop: the frame channel is empty and open, ev_rx.recv() gives an
\* event (the select is biased towards frames)
ProcessLoopEvent ==
    /\ ProcessPolled /\ ppc = "loop"
    /\ frameCh = <<>> /\ dres = "running"
    /\ evCh # <<>>
    /\ Apply(HandleEvent(Cx, Head(evCh)))
    /\ evCh' = Tail(evCh)
    /\ UNCHANGED dfVars

\* read_headers: rx.recv() gives the next frame of the header block
ReadHeadersFrame ==
    /\ ProcessPolled /\ ppc = "read_headers"
    /\ frameCh # <<>>
    /\ Apply(ReadContinuation(Cx, rh, Head(frameCh)))
    /\ frameCh' = Tail(frameCh)
    /\ UNCHANGED <<nread, dres, evCh>>

\* read_headers: rx.recv() gives None in the middle of a header block
ReadHeadersHangup ==
    /\ ProcessPolled /\ ppc = "read_headers"
    /\ frameCh = <<>> /\ dres # "running"
    /\ Apply(Fail(Cx, "ExpectedContinuationFrame"))
    /\ UNCHANGED <<dfVars, evCh>>

\* the pending incoming.send completes: the item is queued, or the receiver
\* is gone and the send fails; then the code after the await runs
IncomingSendDone ==
    /\ ProcessPolled /\ ppc = "send"
    /\ \/ handlers[pend.sid].returned
       \/ Len(incoming[pend.sid]) < IncomingChanCap
    /\ LET c1 == IF handlers[pend.sid].returned THEN Cx
                 ELSE [Cx EXCEPT !.incoming[pend.sid] = Append(@, pend.item)]
       IN  Apply(AfterSend(c1, pend.sid, pend.after))
    /\ UNCHANGED <<dfVars, evCh>>

\* work: the preface is read and the initial SETTINGS frame is written, or
\* the peer closed before sending it, or reading it failed
WorkPreface ==
    /\ wpc = "preface"
    /\ \/ /\ out' = Append(out, Frame("Settings", {}, CONNECTION,
                                      <<0, 3, 0, 0, 0, max_concurrent_streams>>))
          /\ wpc' = "select" /\ UNCHANGED <<wres, goaway_err>>
       \/ /\ wpc' = "done" /\ wres' = "Ok" /\ UNCHANGED <<out, goaway_err>>
       \/ /\ wpc' = "done" /\ wres' = "Err" /\ UNCHANGED <<out, goaway_err>>
    /\ UNCHANGED <<poolVars, connVars, dfVars, procVars, appVars, hblock>>

\* variant: work does not return after writing the GOAWAY frame
WorkGoAway_Repeats ==
    /\ wpc = "goaway"
    /\ out' = Append(out, Frame("GoAway", {}, CONNECTION,
                                <<last_stream_id, ConnErrorCode(goaway_err)>>))
    /\ UNCHANGED <<poolVars, connVars, dfVars, procVars, appVars, hblock, workVars>>

\* work: goaway_err is set, the GOAWAY frame is written (lines 202-224) and
\* work returns Ok; serve shuts the transport down and returns Ok
WorkGoAway ==
    /\ wpc = "goaway"
    /\ out' = Append(out, Frame("GoAway", {}, CONNECTION,
                                <<last_stream_id, ConnErrorCode(goaway_err)>>))
    /\ wpc' = "done" /\ wres' = "Ok"
    /\ UNCHANGED <<poolVars, connVars, dfVars, procVars, appVars, hblock, goaway_err>>

(***************************************************************************)
(* Request handlers: the tasks spawned by read_headers.  Each owns the     *)
(* H2Encoder (a clone of ev_tx) and the H2Body (the receiver of the        *)
(* stream's incoming channel) of its stream.                               *)
(***************************************************************************)
Event(sid, payload, data) ==
    [stream_id |-> sid, payload |-> payload, data |-> data]

HandlerRuns(s) ==
    s \in DOMAIN handlers /\ ~handlers[s].returned
    /\ wpc \in {"select", "await_process"}

\* the sender of stream s's incoming channel is still held by the Processor
IncomingSenderAlive(s) ==
    \/ s \in DOMAIN streams /\ streams[s] \in {"Open", "HalfClosedLocal"}
    \/ pend.active /\ pend.sid = s

\* the handler sends the next event of its response on the event channel:
\* Headers, then BodyChunk events, then BodyEnd
HandlerRespond(s) ==
    /\ HandlerRuns(s)
    /\ Len(evCh) < EventChanCap
    /\ \/ /\ handlers[s].enc = "ExpectResponseHeaders"
          /\ evCh' = Append(evCh, Event(s, "Headers", <<8>>))
          /\ handlers' = [handlers EXCEPT ![s].enc = "ExpectResponseBody"]
       \/ /\ handlers[s].enc = "ExpectResponseBody"
          /\ handlers[s].chunks < MaxChunks
          /\ evCh' = Append(evCh, Event(s, "BodyChunk", <<9>>))
          /\ handlers' = [handlers EXCEPT ![s].chunks = @ + 1]
       \/ /\ handlers[s].enc = "ExpectResponseBody"
          /\ evCh' = Append(evCh, Event(s, "BodyEnd", <<>>))
          /\ handlers' = [handlers EXCEPT ![s].enc = "ResponseDone"]
    /\ UNCHANGED <<poolVars, connVars, out, dfVars, procVars, incoming, hblock,
                   workVars>>

\* body.next_chunk() takes the next item of the incoming channel
HandlerNextChunk(s) ==
    /\ HandlerRuns(s)
    /\ incoming[s] # <<>>
    /\ incoming' = [incoming EXCEPT ![s] = Tail(@)]
    /\ UNCHANGED <<poolVars, connVars, out, dfVars, procVars, evCh, handlers, hblock,
                   workVars>>

\* body.next_chunk() gives Done: the incoming channel is empty and the
\* Processor has dropped its sender
BodyDone(s) ==
    s \in DOMAIN handlers /\ incoming[s] = <<>> /\ ~IncomingSenderAlive(s)

\* variant: the end of a handler ends the Processor with an error
HandlerReturn_EndsProcessor(s) ==
    /\ HandlerRuns(s)
    /\ handlers' = [handlers EXCEPT ![s] = ReturnedHandler]
    /\ incoming' = [incoming EXCEPT ![s] = <<>>]
    /\ ppc' = "done" /\ pres' = "Internal"
    /\ UNCHANGED <<poolVars, connVars, out, dfVars, rh, pend, evCh, hblock,
                   workVars>>

\* the handler future completes (with Ok or with an error): its encoder and
\* its H2Body are dropped, and with the H2Body the receiver of the incoming
\* channel and what was queued in it
HandlerReturn(s) ==
    /\ HandlerRuns(s)
    /\ handlers' = [handlers EXCEPT ![s] = ReturnedHandler]
    /\ incoming' = [incoming EXCEPT ![s] = <<>>]
    /\ UNCHANGED <<poolVars, connVars, out, dfVars, procVars, evCh, hblock, workVars>>

\* the connection has ended and its ServerContext, with every incoming
\* sender, is dropped; the handler task lives on and body.next_chunk() takes
\* what is still queued in the incoming channel
HandlerDrains(s) ==
    /\ wpc = "done"
    /\ s \in DOMAIN handlers /\ ~handlers[s].returned
    /\ incoming[s] # <<>>
    /\ incoming' = [incoming EXCEPT ![s] = Tail(@)]
    /\ UNCHANGED <<poolVars, connVars, out, dfVars, procVars, evCh, handlers, hblock,
                   workVars>>

(***************************************************************************)
(* The buffer pool (src/bufpool.rs): a thread-local pool of num_buf        *)
(* regions with a free list of region indices and one i16 reference count  *)
(* per region.  The live BufMut and Buf handles are counted per region.    *)
(***************************************************************************)
serverVars == <<max_concurrent_streams, streams, last_stream_id, goaway_recv,
                peer_settings, out, frameCh, nread, dres, ppc, pres, rh, pend,
                evCh, incoming, handlers, hblock, wpc, wres, goaway_err>>

\* the region indices of a pool created with BufPool::new_empty(_, NumBuf)
Regions == 0..(NumBuf - 1)

\* BufPool::new_empty: inner is None
NoInner == [some |-> FALSE, free |-> <<>>, ref_counts |-> [i \in {} |-> 0]]

\* BufPool::borrow_mut: on first use the mapping is made, every index is
\* pushed to the free list and every reference count is zero
BorrowMut(p) ==
    IF p.some THEN p
    ELSE [some |-> TRUE, free |-> [k \in 1..NumBuf |-> k - 1],
          ref_counts |-> [i \in Regions |-> 0]]

\* the i16 a release build stores for the integer n
WrapI16(n) == ((n + I16Max + 1) % (2 * I16Max + 2)) - I16Max - 1

\* n is not an i16: `+= 1` or `-= 1` overflows
OverflowsI16(n) == n > I16Max \/ n < -I16Max - 1

\* number of live handles of region i
Live(i) == bufmuts[i] + bufs[i]

\* the thread makes one more call into the pool (none after a panic)
PoolCall ==
    /\ pool_res.res # "panic"
    /\ pool_calls < MaxPoolCalls
    /\ pool_calls' = pool_calls + 1
    /\ UNCHANGED serverVars

\* how many times in a row the thread clones a Buf: once, or often enough
\* to take an i16 from 0 past i16::MAX
CloneCounts == {1, I16Max + 1}

\* the step of a pool call whose reference count arithmetic gives the
\* integer n: when n is an i16 the call goes on with `normal`; when it
\* overflows, a build with overflow checks panics (and has done `onpanic`
\* by then) and a build without them wraps around and goes on
RefCountArith(n, op, index, normal, onpanic) ==
    IF OverflowsI16(n)
    THEN \/ /\ overflow_checks # "off"
            /\ overflow_checks' = "on"
            /\ pool_res' = [op |-> op, res |-> "panic", index |-> index]
            /\ onpanic
         \/ /\ overflow_checks # "on"
            /\ overflow_checks' = "off"
            /\ normal
    ELSE normal /\ UNCHANGED overflow_checks

\* BufPool::alloc with Some(index) popped from the free list
AllocOk(p, index) ==
    /\ inner' = [p EXCEPT !.free = Tail(@),
                          !.ref_counts[index] = WrapI16(@ + 1)]
    /\ bufmuts' = [bufmuts EXCEPT ![index] = @ + 1]
    /\ pool_res' = [op |-> "alloc", res |-> "Ok", index |-> index]
    /\ UNCHANGED bufs

\* BufMut::alloc(): BUF_POOL.alloc(); in borrow_mut the mapping may fail
Alloc ==
    /\ PoolCall
    /\ \/ /\ ~inner.some
          /\ pool_res' = [op |-> "alloc", res |-> "Mmap", index |-> 0]
          /\ UNCHANGED <<inner, bufmuts, bufs, overflow_checks>>
       \/ LET p == BorrowMut(inner) IN
          IF p.free = <<>>
          THEN /\ inner' = p
               /\ pool_res' = [op |-> "alloc", res |-> "OutOfMemory",
                               index |-> 0]
               /\ UNCHANGED <<bufmuts, bufs, overflow_checks>>
          ELSE LET index == Head(p.free) IN
               RefCountArith(p.ref_counts[index] + 1, "alloc", index,
                             AllocOk(p, index),
                             /\ inner' = [p EXCEPT !.free = Tail(@)]
                             /\ UNCHANGED <<bufmuts, bufs>>)

\* BufMut::freeze: the BufMut becomes a Buf; mem::forget keeps the count
Freeze(i) ==
    /\ PoolCall
    /\ bufmuts[i] > 0
    /\ bufmuts' = [bufmuts EXCEPT ![i] = @ - 1]
    /\ bufs' = [bufs EXCEPT ![i] = @ + 1]
    /\ pool_res' = [op |-> "freeze", res |-> "Ok", index |-> i]
    /\ UNCHANGED <<inner, overflow_checks>>

\* BufPool::inc, n times in a row
Inc(p, index, n) == [p EXCEPT !.ref_counts[index] = WrapI16(@ + n)]

\* BufPool::dec
Dec(p, index) ==
    LET n == WrapI16(p.ref_counts[index] - 1) IN
    [p EXCEPT !.ref_counts[index] = n,
              !.free = IF n = 0 THEN Append(@, index) ELSE @]

\* Buf::clone, n times in a row on handles of region i; with overflow
\* checks the clone that would pass i16::MAX panics
Clone(i, n) ==
    /\ PoolCall
    /\ bufs[i] > 0
    /\ RefCountArith(inner.ref_counts[i] + n, "clone", i,
                     /\ inner' = Inc(inner, i, n)
                     /\ bufs' = [bufs EXCEPT ![i] = @ + n]
                     /\ pool_res' = [op |-> "clone", res |-> "Ok",
                                     index |-> i]
                     /\ UNCHANGED bufmuts,
                     /\ inner' = [inner EXCEPT !.ref_counts[i] = I16Max]
                     /\ bufs' = [bufs EXCEPT
                                   ![i] = @ + I16Max - inner.ref_counts[i]]
                     /\ UNCHANGED bufmuts)

\* Drop for BufMut
DropBufMut(i) ==
    /\ PoolCall
    /\ bufmuts[i] > 0
    /\ RefCountArith(inner.ref_counts[i] - 1, "drop", i,
                     /\ inner' = Dec(inner, i)
                     /\ bufmuts' = [bufmuts EXCEPT ![i] = @ - 1]
                     /\ pool_res' = [op |-> "drop", res |-> "Ok",
                                     index |-> i]
                     /\ UNCHANGED bufs,
                     /\ bufmuts' = [bufmuts EXCEPT ![i] = @ - 1]
                     /\ UNCHANGED <<inner, bufs>>)

\* Drop for Buf
DropBuf(i) ==
    /\ PoolCall
    /\ bufs[i] > 0
    /\ RefCountArith(inner.ref_counts[i] - 1, "drop", i,
                     /\ inner' = Dec(inner, i)
                     /\ bufs' = [bufs EXCEPT ![i] = @ - 1]
                     /\ pool_res' = [op |-> "drop", res |-> "Ok",
                                     index |-> i]
                     /\ UNCHANGED bufmuts,
                     /\ bufs' = [bufs EXCEPT ![i] = @ - 1]
                     /\ UNCHANGED <<inner, bufmuts>>)

(***************************************************************************)
(* Frames the modelled peer sends.                                         *)
(***************************************************************************)
\* the stream ids the modelled peer opens streams with (2 is the even one)
StreamSids == {1, 2, 3}

PingBytes == <<1, 2, 3, 4, 5, 6, 7, 8>>

PeerFrames ==
    {Frame("Headers", fl, sid, <<1, 2, 3>>) :
        fl \in SUBSET {"EndHeaders", "EndStream"}, sid \in {1, 3}}
    \cup {Frame("Headers", fl, 1, <<5>>) :
            fl \in {{"EndHeaders", "EndStream"}, {"EndHeaders"}}}
    \cup {Frame("Continuation", fl, 1, <<5>>) : fl \in SUBSET {"EndHeaders"}}
    \cup {Frame("Data", fl, 1, <<7>>) : fl \in SUBSET {"EndStream"}}
    \cup {Frame("Headers", {"EndHeaders"}, 2, <<1, 2, 3>>),
          Frame("Continuation", {"EndHeaders"}, 3, <<5>>),
          Frame("RstStream", {}, 1, <<0, 0, 0, 8>>),
          Frame("RstStream", {}, 1, <<>>),
          Frame("Priority", {}, 1, <<0, 0, 0, 0, 16>>),
          Frame("Settings", {}, CONNECTION, <<>>),
          Frame("PushPromise", {}, 1, <<>>),
          Frame("Ping", {}, CONNECTION, PingBytes),
          Frame("GoAway", {}, CONNECTION, <<0, 0, 0, 0, 0, 0, 0, 0>>),
          Frame("WindowUpdate", {}, 1, <<0, 0, 0, 1>>),
          Frame("Unknown", {}, CONNECTION, <<>>),
          Oversized("Data", 1)}

(***************************************************************************)
(* The connection.                                                         *)
(***************************************************************************)
Init ==
    /\ max_concurrent_streams \in {0, 1}
    /\ streams = <<>>
    /\ last_stream_id = 0
    /\ goaway_recv = FALSE
    /\ peer_settings = DefaultSettings
    /\ out = <<>>
    /\ frameCh = <<>>
    /\ nread = 0
    /\ dres = "running"
    /\ ppc = "loop"
    /\ pres = "none"
    /\ rh = NoRh
    /\ pend = NoPend
    /\ evCh = <<>>
    /\ incoming = <<>>
    /\ handlers = <<>>
    /\ hblock = [n |-> 0, sid |-> 0, hot |-> "Headers", mode |-> "Skip",
                 frags |-> <<>>, decoded |-> <<>>, done |-> TRUE]
    /\ wpc = "preface"
    /\ wres = "none"
    /\ goaway_err = "none"
    /\ inner = NoInner
    /\ bufmuts = [i \in Regions |-> 0]
    /\ bufs = [i \in Regions |-> 0]
    /\ pool_res = [op |-> "none", res |-> "none", index |-> 0]
    /\ overflow_checks = "unknown"
    /\ pool_calls = 0

Next ==
    \/ WorkPreface
    \/ DeframeFrame(PeerFrames)
    \/ DeframeEof
    \/ DeframeReadError
    \/ ProcessLoopFrame
    \/ ProcessLoopHangup
    \/ ProcessLoopEvent
    \/ ReadHeadersFrame
    \/ ReadHeadersHangup
    \/ IncomingSendDone
    \/ WorkGoAway
    \/ \E s \in StreamSids : HandlerRespond(s)
    \/ \E s \in StreamSids : HandlerNextChunk(s)
    \/ \E s \in StreamSids : HandlerReturn(s)

Spec == Init /\ [][Next]_vars

(***************************************************************************)
(* A connection with room for one stream whose peer opens stream 1, tries  *)
(* to open stream 3 and sends DATA on stream 1.                            *)
(***************************************************************************)
StreamFrames ==
    {Frame("Headers", {"EndHeaders"}, 1, <<1, 2, 3>>),
     Frame("Headers", {"EndHeaders"}, 3, <<1, 2, 3>>),
     Frame("Headers", {}, 3, <<1, 2, 3>>),
     Frame("Continuation", {"EndHeaders"}, 3, <<5>>),
     Frame("Data", {}, 1, <<7>>),
     Frame("Data", {"EndStream"}, 1, <<7>>)}

InitStreams == Init /\ max_concurrent_streams = 1

DeframeStreamFrame == DeframeUpTo(StreamFrames, MaxStreamFrames)

NextStreams ==
    \/ WorkPreface
    \/ DeframeStreamFrame
    \/ DeframeEof
    \/ ProcessLoopFrame
    \/ ProcessLoopHangup
    \/ ProcessLoopEvent
    \/ ReadHeadersFrame
    \/ ReadHeadersHangup
    \/ IncomingSendDone
    \/ WorkGoAway
    \/ \E s \in StreamSids : HandlerRespond(s)
    \/ \E s \in StreamSids : HandlerNextChunk(s)
    \/ \E s \in StreamSids : HandlerReturn(s)

SpecStreams == InitStreams /\ [][NextStreams]_vars

(***************************************************************************)
(* A connection whose peer only sends PING and SETTINGS frames: no stream  *)
(* is opened, so no handler runs.                                          *)
(***************************************************************************)
ControlFrames ==
    {Frame("Ping", {}, CONNECTION, PingBytes),
     Frame("Ping", {"Ack"}, CONNECTION, PingBytes),
     Frame("Ping", {}, CONNECTION, <<1, 2, 3, 4>>),
     Frame("Ping", {}, 1, PingBytes),
     Frame("Settings", {}, CONNECTION, <<>>),
     Frame("Settings", {}, CONNECTION, <<0, 1, 0, 0, 0, 100>>),
     Frame("Settings", {}, CONNECTION, <<0, 5, 0, 0, 128, 0>>),
     Frame("Settings", {}, CONNECTION, <<0, 1, 0, 0, 0>>),
     Frame("Settings", {"Ack"}, CONNECTION, <<>>),
     Frame("Settings", {"Ack"}, CONNECTION, <<0, 1, 0, 0, 0, 100>>),
     Frame("Settings", {}, 1, <<>>)}

DeframeControlFrame == DeframeFrame(ControlFrames)

NextControl ==
    \/ WorkPreface
    \/ DeframeControlFrame
    \/ DeframeEof
    \/ ProcessLoopFrame
    \/ ProcessLoopHangup
    \/ WorkGoAway

SpecControl == Init /\ [][NextControl]_vars

(***************************************************************************)
(* A connection whose peer sends a request with a body on stream 1, with   *)
(* handlers that keep running: a handler that reads its body goes on       *)
(* reading, also after the connection has ended.                           *)
(***************************************************************************)
BodyFrames ==
    {Frame("Headers", {"EndHeaders"}, 1, <<1, 2, 3>>),
     Frame("Data", {}, 1, <<7>>),
     Frame("Data", {"EndStream"}, 1, <<7>>),
     Frame("PushPromise", {}, 1, <<>>)}

DeframeBodyFrame == DeframeFrame(BodyFrames)

NextBody ==
    \/ WorkPreface
    \/ DeframeBodyFrame
    \/ DeframeEof
    \/ ProcessLoopFrame
    \/ ProcessLoopHangup
    \/ ProcessLoopEvent
    \/ IncomingSendDone
    \/ WorkGoAway
    \/ \E s \in StreamSids : HandlerRespond(s)
    \/ \E s \in StreamSids : HandlerNextChunk(s)
    \/ \E s \in StreamSids : HandlerReturn(s)
    \/ \E s \in StreamSids : HandlerDrains(s)

\* work runs to its end once goaway_err is set, and a handler that can take
\* a body item does take it
SpecBody ==
    /\ Init /\ [][NextBody]_vars
    /\ WF_vars(WorkGoAway)
    /\ \A s \in StreamSids :
          WF_vars(HandlerNextChunk(s)) /\ WF_vars(HandlerDrains(s))

(***************************************************************************)
(* A connection whose peer opens its requests with one HEADERS frame that  *)
(* carries END_HEADERS and END_STREAM: the requests have no body.          *)
(***************************************************************************)
GetFrames ==
    {Frame("Headers", {"EndHeaders", "EndStream"}, 1, <<1, 2, 3>>),
     Frame("Headers", {"EndHeaders", "EndStream"}, 3, <<1, 2, 3>>),
     Frame("Ping", {}, CONNECTION, PingBytes)}

DeframeGetFrame == DeframeFrame(GetFrames)

NextGet ==
    \/ WorkPreface
    \/ DeframeGetFrame
    \/ DeframeEof
    \/ ProcessLoopFrame
    \/ ProcessLoopHangup
    \/ ProcessLoopEvent
    \/ WorkGoAway
    \/ \E s \in StreamSids : HandlerRespond(s)
    \/ \E s \in StreamSids : HandlerReturn(s)

SpecGet == Init /\ [][NextGet]_vars

(***************************************************************************)
(* A connection that allows two concurrent streams, with a peer that opens *)
(* stream 1 with a body to come and stream 3 without one.                  *)
(***************************************************************************)
PairFrames ==
    {Frame("Headers", {"EndHeaders"}, 1, <<1, 2, 3>>),
     Frame("Headers", {"EndHeaders", "EndStream"}, 3, <<1, 2, 3>>)}

InitPair ==
    /\ max_concurrent_streams = 2
    /\ streams = <<>>
    /\ last_stream_id = 0
    /\ goaway_recv = FALSE
    /\ peer_settings = DefaultSettings
    /\ out = <<>>
    /\ frameCh = <<>>
    /\ nread = 0
    /\ dres = "running"
    /\ ppc = "loop"
    /\ pres = "none"
    /\ rh = NoRh
    /\ pend = NoPend
    /\ evCh = <<>>
    /\ incoming = <<>>
    /\ handlers = <<>>
    /\ hblock = [n |-> 0, sid |-> 0, hot |-> "Headers", mode |-> "Skip",
                 frags |-> <<>>, decoded |-> <<>>, done |-> TRUE]
    /\ wpc = "preface"
    /\ wres = "none"
    /\ goaway_err = "none"
    /\ inner = NoInner
    /\ bufmuts = [i \in Regions |-> 0]
    /\ bufs = [i \in Regions |-> 0]
    /\ pool_res = [op |-> "none", res |-> "none", index |-> 0]
    /\ overflow_checks = "unknown"
    /\ pool_calls = 0

DeframePairFrame == DeframeUpTo(PairFrames, MaxPairFrames)

NextPair ==
    \/ WorkPreface
    \/ DeframePairFrame
    \/ DeframeEof
    \/ ProcessLoopFrame
    \/ ProcessLoopHangup
    \/ ProcessLoopEvent
    \/ WorkGoAway
    \/ \E s \in StreamSids : HandlerRespond(s)
    \/ \E s \in StreamSids : HandlerReturn(s)

SpecPair == InitPair /\ [][NextPair]_vars

(***************************************************************************)
(* A connection whose peer opens stream 1 and sends RST_STREAM and         *)
(* PRIORITY frames, well formed or of a wrong size, for stream 1 and for   *)
(* the connection stream 0.                                                *)
(***************************************************************************)
ResetFrames ==
    {Frame("Headers", {"EndHeaders"}, 1, <<1, 2, 3>>),
     Frame("Headers", {"EndHeaders", "EndStream"}, 1, <<1, 2, 3>>),
     Frame("RstStream", {}, 1, <<0, 0, 0, 8>>),
     Frame("RstStream", {}, 1, <<>>),
     Frame("RstStream", {}, CONNECTION, <<>>),
     Frame("Priority", {}, 1, <<0, 0, 0, 0, 16>>),
     Frame("Priority", {}, CONNECTION, <<>>)}

DeframeResetFrame == DeframeUpTo(ResetFrames, MaxResetFrames)

NextReset ==
    \/ WorkPreface
    \/ DeframeResetFrame
    \/ DeframeEof
    \/ ProcessLoopFrame
    \/ ProcessLoopHangup
    \/ ProcessLoopEvent
    \/ IncomingSendDone
    \/ WorkGoAway
    \/ \E s \in StreamSids : HandlerRespond(s)
    \/ \E s \in StreamSids : HandlerNextChunk(s)
    \/ \E s \in StreamSids : HandlerReturn(s)

SpecReset == InitStreams /\ [][NextReset]_vars

(***************************************************************************)
(* A connection whose peer opens stream 1 and sends WINDOW_UPDATE frames   *)
(* and frames of a type the server does not know.                          *)
(***************************************************************************)
WindowFrames ==
    {Frame("Headers", {"EndHeaders"}, 1, <<1, 2, 3>>),
     Frame("WindowUpdate", {}, CONNECTION, <<0, 0, 0, 1>>),
     Frame("WindowUpdate", {}, 1, <<0, 0, 0, 1>>),
     Frame("WindowUpdate", {}, 3, <<0, 0, 0, 1>>),
     Frame("WindowUpdate", {}, 1, <<0, 0, 0, 0>>),
     Frame("WindowUpdate", {}, CONNECTION, <<128, 0, 0, 0>>),
     Frame("WindowUpdate", {}, 1, <<0, 0, 1>>),
     Frame("Unknown", {}, CONNECTION, <<>>),
     Frame("Unknown", {}, 1, <<7>>),
     Frame("Unknown", {}, 3, <<7>>)}

DeframeWindowFrame == DeframeUpTo(WindowFrames, MaxWindowFrames)

NextWindow ==
    \/ WorkPreface
    \/ DeframeWindowFrame
    \/ DeframeEof
    \/ ProcessLoopFrame
    \/ ProcessLoopHangup
    \/ ProcessLoopEvent
    \/ WorkGoAway
    \/ \E s \in StreamSids : HandlerRespond(s)

SpecWindow == InitStreams /\ [][NextWindow]_vars

(***************************************************************************)
(* A connection whose peer sends DATA and HEADERS frames with the PADDED   *)
(* flag: the payload is the pad length byte, the data and the padding.     *)
(***************************************************************************)
PaddedFrames ==
    {Frame("Headers", {"EndHeaders", "Padded"}, 1, <<1, 1, 2, 3, 0>>),
     Frame("Headers", {"EndHeaders", "Padded"}, 1, <<5, 1, 2, 3>>),
     Frame("Headers", {"EndHeaders"}, 1, <<1, 2, 3>>),
     Frame("Data", {"Padded"}, 1, <<>>),
     Frame("Data", {"Padded"}, 1, <<0>>),
     Frame("Data", {"Padded"}, 1, <<1>>),
     Frame("Data", {"Padded"}, 1, <<0, 7>>),
     Frame("Data", {"Padded"}, 1, <<1, 7, 0>>),
     Frame("Data", {"Padded"}, 1, <<2, 7, 0>>),
     Frame("Data", {"Padded"}, 1, <<3, 7, 0>>),
     Frame("Data", {}, 1, <<1, 7, 0>>)}

DeframePaddedFrame == DeframeUpTo(PaddedFrames, MaxPaddedFrames)

NextPadded ==
    \/ WorkPreface
    \/ DeframePaddedFrame
    \/ DeframeEof
    \/ ProcessLoopFrame
    \/ ProcessLoopHangup
    \/ ProcessLoopEvent
    \/ IncomingSendDone
    \/ WorkGoAway
    \/ \E s \in StreamSids : HandlerRespond(s)
    \/ \E s \in StreamSids : HandlerNextChunk(s)

SpecPadded == InitStreams /\ [][NextPadded]_vars

(***************************************************************************)
(* A connection whose peer announces a SETTINGS_MAX_FRAME_SIZE above the   *)
(* default and sends a frame of one byte more than the default size.       *)
(***************************************************************************)
SizeFrames ==
    {Frame("Settings", {}, CONNECTION, <<0, 5, 0, 0, 128, 0>>),
     Frame("Settings", {}, CONNECTION, <<>>),
     Frame("Ping", {}, CONNECTION, PingBytes),
     Frame("Ping", {}, 1, PingBytes),
     Oversized("Data", 1),
     Oversized("Unknown", CONNECTION)}

DeframeSizeFrame == DeframeFrame(SizeFrames)

NextSize ==
    \/ WorkPreface
    \/ DeframeSizeFrame
    \/ DeframeEof
    \/ ProcessLoopFrame
    \/ ProcessLoopHangup
    \/ WorkGoAway

SpecSize == Init /\ [][NextSize]_vars

(***************************************************************************)
(* A connection whose peer sends header blocks that are malformed          *)
(* requests: a repeated pseudo-header, an empty :path, trailers with a     *)
(* pseudo-header.                                                          *)
(***************************************************************************)
MalformedFrames ==
    {Frame("Headers", {"EndHeaders"}, 1, <<1, 2, 3>>),
     Frame("Headers", {"EndHeaders", "EndStream"}, 1, <<1, 2, 3>>),
     Frame("Headers", {"EndHeaders"}, 1, <<1, 1, 2, 3>>),
     Frame("Headers", {"EndHeaders"}, 1, <<1, 2, 3, 4, 4>>),
     Frame("Headers", {"EndHeaders"}, 1, <<1, 2, 6>>),
     Frame("Headers", {"EndHeaders", "EndStream"}, 1, <<5>>),
     Frame("Headers", {"EndHeaders", "EndStream"}, 1, <<5, 1>>),
     Frame("Ping", {}, CONNECTION, PingBytes)}

DeframeMalformedFrame == DeframeFrame(MalformedFrames)

NextMalformed ==
    \/ WorkPreface
    \/ DeframeMalformedFrame
    \/ DeframeEof
    \/ ProcessLoopFrame
    \/ ProcessLoopHangup
    \/ ProcessLoopEvent
    \/ IncomingSendDone
    \/ WorkGoAway
    \/ \E s \in StreamSids : HandlerRespond(s)
    \/ \E s \in StreamSids : HandlerNextChunk(s)

SpecMalformed == InitStreams /\ [][NextMalformed]_vars

(***************************************************************************)
(* A connection whose peer sends a request with a body on stream 1, the    *)
(* payload of each DATA frame being the number of the frame in the order   *)
(* the Deframer reads them, and a handler that keeps reading its body.     *)
(***************************************************************************)
OrderFrames ==
    {Frame("Headers", {"EndHeaders"}, 1, <<1, 2, 3>>),
     Frame("Headers", {"EndHeaders", "EndStream"}, 1, <<5>>),
     Frame("Data", {}, 1, <<nread + 1>>),
     Frame("Data", {"EndStream"}, 1, <<nread + 1>>)}

DeframeOrderFrame == DeframeUpTo(OrderFrames, MaxOrderFrames)

NextOrder ==
    \/ WorkPreface
    \/ DeframeOrderFrame
    \/ DeframeEof
    \/ ProcessLoopFrame
    \/ ProcessLoopHangup
    \/ ProcessLoopEvent
    \/ IncomingSendDone
    \/ WorkGoAway
    \/ \E s \in StreamSids : HandlerRespond(s)
    \/ \E s \in StreamSids : HandlerNextChunk(s)

SpecOrder == InitStreams /\ [][NextOrder]_vars

(***************************************************************************)
(* A connection whose peer sends a request with a body on stream 1, and a  *)
(* handler that writes a long response body before it reads the request    *)
(* body.                                                                   *)
(***************************************************************************)
BlockFrames ==
    {Frame("Headers", {"EndHeaders"}, 1, <<1, 2, 3>>),
     Frame("Data", {}, 1, <<7>>)}

DeframeBlockFrame == DeframeUpTo(BlockFrames, MaxBlockFrames)

\* the handler calls write_chunk: the BodyChunk event is queued, or, the
\* event channel being full, the handler is suspended in ev_tx.send
HandlerWriteChunk(s) ==
    /\ HandlerRuns(s)
    /\ handlers[s].enc = "ExpectResponseBody"
    /\ handlers[s].chunks < MaxBodyChunks
    /\ IF Len(evCh) < EventChanCap
       THEN /\ evCh' = Append(evCh, Event(s, "BodyChunk", <<9>>))
            /\ handlers' = [handlers EXCEPT ![s].chunks = @ + 1]
       ELSE /\ evCh' = evCh
            /\ handlers' = [handlers EXCEPT ![s].enc = "SendingBodyChunk"]
    /\ UNCHANGED <<poolVars, connVars, out, dfVars, procVars, incoming, hblock,
                   workVars>>

\* the event channel has room again: the suspended ev_tx.send completes
HandlerSendCompletes(s) ==
    /\ HandlerRuns(s)
    /\ handlers[s].enc = "SendingBodyChunk"
    /\ Len(evCh) < EventChanCap
    /\ evCh' = Append(evCh, Event(s, "BodyChunk", <<9>>))
    /\ handlers' = [handlers EXCEPT ![s].enc = "ExpectResponseBody",
                                    ![s].chunks = @ + 1]
    /\ UNCHANGED <<poolVars, connVars, out, dfVars, procVars, incoming, hblock,
                   workVars>>

\* the handler reads its request body once its response is written
HandlerReadsAfterResponse(s) ==
    /\ s \in DOMAIN handlers /\ handlers[s].enc = "ResponseDone"
    /\ HandlerNextChunk(s)

NextBlock ==
    \/ WorkPreface
    \/ DeframeBlockFrame
    \/ DeframeEof
    \/ ProcessLoopFrame
    \/ ProcessLoopHangup
    \/ ProcessLoopEvent
    \/ IncomingSendDone
    \/ WorkGoAway
    \/ \E s \in StreamSids : HandlerRespond(s)
    \/ \E s \in StreamSids : HandlerWriteChunk(s)
    \/ \E s \in StreamSids : HandlerSendCompletes(s)
    \/ \E s \in StreamSids : HandlerReadsAfterResponse(s)

SpecBlock == InitStreams /\ [][NextBlock]_vars

(***************************************************************************)
(* The buffer pool under a thread that allocates, freezes, clones and      *)
(* drops buffers in any order.                                             *)
(***************************************************************************)
NextPool ==
    \/ Alloc
    \/ \E i \in Regions : Freeze(i)
    \/ \E i \in Regions, n \in CloneCounts : Clone(i, n)
    \/ \E i \in Regions : DropBufMut(i)
    \/ \E i \in Regions : DropBuf(i)

SpecPool == InitStreams /\ [][NextPool]_vars

\* number of times index i occurs in the free list fl
RECURSIVE Occurrences(_, _)
Occurrences(fl, i) ==
    IF fl = <<>> THEN 0
    ELSE (IF Head(fl) = i THEN 1 ELSE 0) + Occurrences(Tail(fl), i)

(***************************************************************************)
(* Properties.                                                             *)
(***************************************************************************)
GoAwayWritten == \E i \in 1..Len(out) : out[i].ty = "GoAway"

\* the Processor step accepts a new stream: a header block for an id that is
\* not in the stream table starts in Process mode
AcceptsStream ==
    /\ hblock'.n = hblock.n + 1
    /\ hblock'.hot = "Headers"
    /\ hblock'.mode = "Process"

\* C1: whenever a new stream is accepted its id is odd, greater than
\* last_stream_id just before, and equal to last_stream_id just after
C1_AcceptedStreamId ==
    [][AcceptsStream =>
          /\ hblock'.sid % 2 = 1
          /\ hblock'.sid > last_stream_id
          /\ last_stream_id' = hblock'.sid]_vars

\* a second stream has been accepted after an earlier one
C1_Witness ==
    /\ hblock.hot = "Headers" /\ hblock.mode = "Process" /\ hblock.sid = 3
    /\ hblock.n >= 2
    /\ 3 \in DOMAIN streams
    /\ 1 \in DOMAIN handlers

\* C2: the stream table never holds more than max_concurrent_streams entries
C2_StreamsWithinMax == Cardinality(DOMAIN streams) <= max_concurrent_streams

\* the table is full and a further stream was refused
C2_Witness ==
    /\ Cardinality(DOMAIN streams) = max_concurrent_streams
    /\ max_concurrent_streams = 1
    /\ \E i \in 1..Len(out) :
          out[i].ty = "RstStream" /\ out[i].payload = <<"REFUSED_STREAM">>

\* C3: every key of the stream table is at most last_stream_id
C3_KeysAtMostLast == \A s \in DOMAIN streams : s <= last_stream_id

C3_Witness == 3 \in DOMAIN streams /\ last_stream_id = 3

\* C4: no step decreases last_stream_id
C4_LastStreamIdMonotonic == [][last_stream_id' >= last_stream_id]_vars

\* last_stream_id went up twice and stream 3 was closed again
C4_Witness ==
    /\ last_stream_id = 3
    /\ 1 \in DOMAIN handlers /\ 3 \in DOMAIN handlers
    /\ 3 \notin DOMAIN streams

\* C5: once a GOAWAY frame is written, no further frame is written
C5_NothingAfterGoAway == [][GoAwayWritten => out' = out]_vars

\* a GOAWAY was written while events of a handler were still pending
C5_Witness == GoAwayWritten /\ evCh # <<>> /\ wpc = "done"

\* the GOAWAY frame work writes for connection error code `code`
GoAwayWith(code) ==
    \E i \in 1..Len(out) :
        out[i].ty = "GoAway" /\ out[i].payload = <<last_stream_id, code>>

\* C6: when the peer sends a frame longer than max_frame_size, the server
\* emits a GOAWAY with FRAME_SIZE_ERROR and the last accepted stream id
C6_OversizedFrameGoAway ==
    (dres = "FrameTooLarge" /\ wpc = "done") => GoAwayWith("FRAME_SIZE_ERROR")

\* C7: whenever the Processor ends with a connection error, a GOAWAY with the
\* mapped error code is written before the connection ends
C7_ProcessorErrorGoAway ==
    (pres \notin {"none", "Ok", "panic"} /\ wpc = "done")
        => GoAwayWith(ConnErrorCode(pres))

\* C8: for every complete header block (accepted, trailers or refused) the
\* decoder is invoked exactly once, with the concatenation of the fragments
\* in the order they were received
C8_DecodedOnceWithConcatenation ==
    (hblock.n > 0 /\ hblock.done)
        => hblock.decoded = <<Concat(hblock.frags)>>

\* C9: a header block interrupted by anything but a CONTINUATION of its
\* stream (or by end of input) ends the Processor with an error mapped to
\* PROTOCOL_ERROR, a GOAWAY is emitted and no stream is created
C9_InterruptedBlockGoAway ==
    (/\ pres \in {"ExpectedContinuationFrame", "ExpectedContinuationForStream"}
     /\ wpc = "done")
        => /\ ConnErrorCode(pres) = "PROTOCOL_ERROR"
           /\ GoAwayWith("PROTOCOL_ERROR")
           /\ (hblock.hot = "Headers" => hblock.sid \notin DOMAIN streams)

\* no event has been taken off the event channel in the step
NoEventTaken ==
    /\ Len(evCh') >= Len(evCh)
    /\ SubSeq(evCh', 1, Len(evCh)) = evCh

TakesHeadersWhenFull ==
    /\ ProcessPolled /\ ppc = "loop"
    /\ frameCh # <<>> /\ frameCh' = Tail(frameCh)
    /\ Head(frameCh).ty = "Headers"
    /\ Head(frameCh).sid \notin DOMAIN streams
    /\ Head(frameCh).sid % 2 = 1
    /\ Head(frameCh).sid > last_stream_id
    /\ Cardinality(DOMAIN streams) >= max_concurrent_streams

\* the Processor takes a frame while it skips a header block
TakesFrameWhileSkipping ==
    /\ ProcessPolled /\ ppc = "read_headers" /\ rh.mode = "Skip"
    /\ frameCh # <<>> /\ frameCh' = Tail(frameCh)
    /\ Head(frameCh).ty = "Continuation" /\ Head(frameCh).sid = rh.stream_id

\* C11: a HEADERS frame for a new, valid id that arrives while the stream
\* table is full is answered with RST_STREAM(REFUSED_STREAM) for that id;
\* no stream is created, no handler spawned, the rest of the block is
\* skipped, the connection goes on and the open streams are left as they are
C11_RefusedStream ==
    /\ [][TakesHeadersWhenFull =>
            /\ out' = Append(out, Frame("RstStream", {}, Head(frameCh).sid,
                                        <<"REFUSED_STREAM">>))
            /\ streams' = streams /\ handlers' = handlers
            /\ incoming' = incoming /\ last_stream_id' = last_stream_id
            /\ ppc' = (IF "EndHeaders" \in Head(frameCh).flags
                       THEN "loop" ELSE "read_headers")
            /\ pres' = "none" /\ wpc' = wpc
            /\ hblock'.mode = "Skip"]_vars
    /\ [][TakesFrameWhileSkipping =>
            /\ out' = out
            /\ streams' = streams /\ handlers' = handlers
            /\ incoming' = incoming /\ last_stream_id' = last_stream_id
            /\ ppc' = (IF "EndHeaders" \in Head(frameCh).flags
                       THEN "loop" ELSE "read_headers")
            /\ pres' = "none" /\ wpc' = wpc]_vars

\* stream 3 was refused while stream 1 was open, and a DATA frame that came
\* afterwards for stream 1 is being delivered to its handler
C11_Witness ==
    /\ max_concurrent_streams = 1
    /\ \E i \in 1..Len(out) :
          out[i] = Frame("RstStream", {}, 3, <<"REFUSED_STREAM">>)
    /\ hblock.sid = 3 /\ hblock.mode = "Skip" /\ hblock.done
    /\ 3 \notin DOMAIN streams /\ 3 \notin DOMAIN handlers
    /\ 1 \in DOMAIN streams
    /\ ppc = "send" /\ pend.sid = 1 /\ pend.item = <<"Piece", <<7>>>>

\* the Processor takes a frame of type ty on stream 0 from the frame channel
TakesControlFrame(ty) ==
    /\ ProcessPolled /\ ppc = "loop"
    /\ frameCh # <<>> /\ frameCh' = Tail(frameCh)
    /\ Head(frameCh).ty = ty
    /\ Head(frameCh).sid = 0

\* C12: for an inbound PING on stream 0 with length 8 and without ACK the
\* server writes exactly one PING with ACK on stream 0 carrying the same 8
\* bytes; for an inbound PING with ACK it writes nothing
C12_PingEcho ==
    /\ [][(/\ TakesControlFrame("Ping")
           /\ Head(frameCh).len = 8
           /\ "Ack" \notin Head(frameCh).flags)
          => out' = Append(out, [ty |-> "Ping", flags |-> {"Ack"}, len |-> 8,
                                 sid |-> 0,
                                 payload |-> Head(frameCh).payload])]_vars
    /\ [][(/\ TakesControlFrame("Ping")
           /\ Head(frameCh).len = 8
           /\ "Ack" \in Head(frameCh).flags)
          => out' = out]_vars

\* a PING was answered: the pong with the bytes 1..8 follows the initial
\* SETTINGS frame, and the connection goes on
C12_Witness ==
    /\ Len(out) = 2
    /\ out[2].ty = "Ping" /\ out[2].flags = {"Ack"} /\ out[2].sid = 0
    /\ out[2].payload = <<1, 2, 3, 4, 5, 6, 7, 8>>
    /\ nread = 2 /\ frameCh = <<>> /\ pres = "none"

C14_PrefaceOnly ==
    (nread = 0 /\ dres = "Ok")
        => /\ Len(out) = 1
           /\ out[1].ty = "Settings" /\ "Ack" \notin out[1].flags
           /\ out[1].sid = 0
           /\ ~GoAwayWritten
           /\ \/ /\ wpc = "await_process" /\ ppc = "loop"
                 /\ ENABLED ProcessLoopHangup
              \/ /\ wpc = "done" /\ wres = "Ok"
                 /\ ppc = "done" /\ pres = "Ok"

\* the peer closed right after the preface and serving has returned
C14_Witness ==
    /\ nread = 0 /\ dres = "Ok"
    /\ wpc = "done" /\ wres = "Ok" /\ ppc = "done"
    /\ Len(out) = 1

\* the Processor completes the delivery of a DATA frame with END_STREAM on
\* stream s
DataEndStreamDone(s) ==
    /\ ppc = "send" /\ pend.sid = s /\ pend.after = "end_stream"
    /\ ppc' # "send"

\* the Processor holds no incoming sender for the running handler of s
SenderReleased(s) ==
    /\ s \in DOMAIN handlers /\ ~handlers[s].returned
    /\ ~IncomingSenderAlive(s)

\* the handler of s has stopped reading its body
HandlerReturned(s) == s \in DOMAIN handlers /\ handlers[s].returned

\* C15: once a DATA frame with END_STREAM is processed on a stream, the
\* Processor has released the stream's incoming sender, and a handler that
\* keeps calling body.next_chunk() eventually gets Done
C15_BodyEventuallyDone ==
    /\ [][\A s \in StreamSids :
             DataEndStreamDone(s) => ~IncomingSenderAlive(s)']_vars
    /\ \A s \in StreamSids :
          SenderReleased(s) ~> (BodyDone(s) \/ HandlerReturned(s))

\* DATA with END_STREAM was processed on stream 1 (now half-closed remote),
\* the handler has taken the piece and its next next_chunk() gives Done
C15_Witness ==
    /\ 1 \in DOMAIN streams /\ streams[1] = "HalfClosedRemote"
    /\ 1 \in DOMAIN handlers /\ ~handlers[1].returned
    /\ BodyDone(1)
    /\ nread = 2

\* C16: for alloc, freeze, any number of clones and the drop of every
\* handle: the free list gets one shorter at alloc, stays as it is while a
\* handle of the region exists, gets the index back when the last handle is
\* dropped, and holds the index once
C16_FreeListTracksHandles ==
    /\ [](inner.some =>
            \A i \in Regions :
                /\ Live(i) > 0 => Occurrences(inner.free, i) = 0
                /\ Occurrences(inner.free, i) <= 1)
    /\ [][(pool_res'.op = "alloc" /\ pool_res'.res = "Ok")
            => Len(inner'.free) = Len(BorrowMut(inner).free) - 1]_vars
    /\ [][(/\ pool_res'.op \in {"freeze", "clone", "drop"}
           /\ pool_res'.res = "Ok")
            => inner'.free =
                  IF bufmuts'[pool_res'.index] + bufs'[pool_res'.index] > 0
                  THEN inner.free
                  ELSE Append(inner.free, pool_res'.index)]_vars

\* C17: in every state of the pool and for every region index, the index is
\* in the free list exactly when its reference count is 0, it is there at
\* most once, and the reference count is the number of live BufMut and Buf
\* handles of the region
C17_PoolInvariant ==
    inner.some =>
        \A i \in Regions :
            /\ (Occurrences(inner.free, i) > 0) <=> (inner.ref_counts[i] = 0)
            /\ Occurrences(inner.free, i) <= 1
            /\ inner.ref_counts[i] = Live(i)

\* C18: alloc gives OutOfMemory exactly when the free list is empty, and
\* then leaves the free list and every reference count as they are;
\* otherwise it takes one index off the free list and sets the reference
\* count of that region to 1
C18_AllocOutOfMemory ==
    [][(pool_res'.op = "alloc" /\ pool_res'.res # "Mmap") =>
          LET p == BorrowMut(inner) IN
          /\ (pool_res'.res = "OutOfMemory") <=> (p.free = <<>>)
          /\ p.free = <<>> =>
                (inner'.free = p.free /\ inner'.ref_counts = p.ref_counts)
          /\ p.free # <<>> =>
                /\ inner'.free = Tail(p.free)
                /\ inner'.ref_counts =
                      [p.ref_counts EXCEPT ![Head(p.free)] = 1]]_vars

\* C19: after every step of the Processor no entry of the stream table is in
\* the Transition state, so that no step finds a stream in Transition when
\* it looks one up
C19_TransitionNotObservable ==
    \A s \in DOMAIN streams :
        streams[s] \in {"Open", "HalfClosedLocal", "HalfClosedRemote"}

\* the state of stream 1 was taken out and put back by write_frame: the
\* response ended on the open stream, which is now half-closed (local)
C19_Witness ==
    /\ 1 \in DOMAIN streams /\ streams[1] = "HalfClosedLocal"
    /\ \E i \in 1..Len(out) : out[i] = Frame("Data", {"EndStream"}, 1, <<>>)

\* the HEADERS and DATA frames written for stream s, in order
ResponseFrames(s) ==
    SelectSeq(out, LAMBDA f : f.sid = s /\ f.ty \in {"Headers", "Data"})

\* the response HEADERS frame of stream s
ResponseHeaders(s) == Frame("Headers", {"EndHeaders"}, s, <<8>>)

\* the empty DATA frame with END_STREAM of stream s
ResponseEnd(s) == Frame("Data", {"EndStream"}, s, <<>>)

\* the Processor takes an event of the kind payload from the event channel
TakesEvent(payload) ==
    /\ ProcessPolled /\ ppc = "loop"
    /\ evCh # <<>> /\ evCh' = Tail(evCh)
    /\ Head(evCh).payload = payload

\* C20: for a request opened by HEADERS with END_HEADERS and END_STREAM
\* whose handler sends a response with an empty body, the server writes for
\* the stream a HEADERS frame with END_HEADERS and without END_STREAM and
\* then an empty DATA frame with END_STREAM, and once that is written the
\* stream is not in the stream table
C20_EmptyBodyResponse ==
    /\ [](\A s \in DOMAIN handlers :
            (handlers[s].chunks = 0 /\ ~handlers[s].returned) =>
                /\ ResponseFrames(s) \in
                      {<<>>, <<ResponseHeaders(s)>>,
                       <<ResponseHeaders(s), ResponseEnd(s)>>}
                /\ ResponseFrames(s) = <<ResponseHeaders(s), ResponseEnd(s)>>
                      => s \notin DOMAIN streams)
    /\ [][TakesEvent("Headers")
            => out' = Append(out, ResponseHeaders(Head(evCh).stream_id))]_vars
    /\ [][TakesEvent("BodyEnd")
            => /\ out' = Append(out, ResponseEnd(Head(evCh).stream_id))
               /\ Head(evCh).stream_id \notin DOMAIN streams']_vars

\* the request on stream 1 was answered with HEADERS and the empty DATA
\* frame with END_STREAM, and stream 1 has left the stream table
C20_Witness ==
    /\ nread = 1
    /\ out = <<Frame("Settings", {}, CONNECTION,
                     <<0, 3, 0, 0, 0, max_concurrent_streams>>),
               ResponseHeaders(1), ResponseEnd(1)>>
    /\ 1 \in DOMAIN handlers /\ handlers[1].enc = "ResponseDone"
    /\ 1 \notin DOMAIN streams

\* C21: a read error of kind ConnectionReset reported by the Deframer is
\* swallowed only if a GOAWAY was written before; a ConnectionReset before
\* any GOAWAY, and every other read error, makes serving return an error
C21_ConnectionResetAfterGoAway ==
    [][(/\ dres = "running"
        /\ dres' \in {"ReadError", "ReadError(ConnectionReset)"}
        /\ ~(dres' = "ReadError(ConnectionReset)" /\ GoAwayWritten))
          => (wpc' = "done" /\ wres' = "Err")]_vars

\* the handler of stream s returns in the step
HandlerReturns(s) ==
    /\ s \in DOMAIN handlers /\ ~handlers[s].returned
    /\ s \in DOMAIN handlers' /\ handlers'[s].returned

\* C22: when a handler returns an error for its stream the Processor does
\* not end and no GOAWAY is written because of it: nothing of the
\* connection changes in that step, and afterwards the Processor still takes
\* the frames that arrive and completes its sends
C22_HandlerErrorKeepsConnection ==
    /\ [][(\E s \in StreamSids : HandlerReturns(s))
            => UNCHANGED <<connVars, out, dfVars, procVars, workVars>>]_vars
    /\ [](\A s \in StreamSids :
            (HandlerReturned(s) /\ ProcessPolled) =>
                /\ (ppc = "loop" /\ frameCh # <<>>) => ENABLED ProcessLoopFrame
                /\ (ppc = "send" /\ pend.sid = s) => ENABLED IncomingSendDone)

\* the handler of stream 1 has returned while its stream is in the table;
\* the connection runs and the next frame is about to be processed
C22_Witness ==
    /\ HandlerReturned(1) /\ 1 \in DOMAIN streams
    /\ wpc = "select" /\ ppc = "loop" /\ pres = "none"
    /\ frameCh # <<>> /\ Head(frameCh).sid = 3
    /\ ~GoAwayWritten

\* the header block bytes decode as trailers: regular headers only
DecodesAsTrailers(bytes) ==
    DecodeWithCb(bytes, "Trailers", NoHeadersSeen).res = "ok"

\* the Processor takes the frame that completes a trailers block with
\* END_STREAM (a HEADERS frame with END_HEADERS, or the last CONTINUATION)
\* for a stream that is in state st
TakesTrailersFor(st) ==
    /\ ProcessPolled
    /\ frameCh # <<>> /\ frameCh' = Tail(frameCh)
    /\ LET f == Head(frameCh) IN
       \/ /\ ppc = "loop"
          /\ f.ty = "Headers"
          /\ f.flags = {"EndHeaders", "EndStream"}
          /\ f.sid \in DOMAIN streams /\ streams[f.sid] = st
          /\ DecodesAsTrailers(f.payload)
       \/ /\ ppc = "read_headers"
          /\ rh.hot = "Trailers" /\ rh.mode = "Process"
          /\ f.ty = "Continuation" /\ f.sid = rh.stream_id
          /\ "EndHeaders" \in f.flags
          /\ rh.stream_id \in DOMAIN streams /\ streams[rh.stream_id] = st
          /\ DecodesAsTrailers(Concat(Append(rh.fragments, f.payload)))

\* the Processor goes on to deliver trailers on the incoming channel of
\* stream sid, after which the stream is removed
DeliversTrailers(sid) ==
    /\ ppc' = "send" /\ pres' = "none"
    /\ pend'.active /\ pend'.sid = sid
    /\ pend'.item[1] = "Trailers" /\ pend'.after = "trailers"

\* C23: a HEADERS frame with END_STREAM for a stream in HalfClosedLocal is
\* taken as trailers: they are delivered on the incoming channel of the
\* stream, the stream is removed, and the Processor neither panics nor ends
\* with a connection error
C23_TrailersOnHalfClosedLocal ==
    [][TakesTrailersFor("HalfClosedLocal")
        => DeliversTrailers(Head(frameCh).sid)]_vars

\* the Processor completes the incoming.send it is suspended on, for an
\* item sent with `after` on the Open stream s
SendDoneOnOpen(s, after) ==
    /\ ProcessPolled /\ ppc = "send" /\ ppc' # "send"
    /\ pend.sid = s /\ pend.after = after
    /\ s \in DOMAIN streams /\ streams[s] = "Open"

\* an RST_STREAM for stream s is taken from the peer or written to it
RstStreamInStep(s) ==
    \/ /\ frameCh # <<>> /\ frameCh' = Tail(frameCh)
       /\ Head(frameCh).ty = "RstStream" /\ Head(frameCh).sid = s
    \/ /\ Len(out') = Len(out) + 1
       /\ out'[Len(out')].ty = "RstStream" /\ out'[Len(out')].sid = s

\* C24: an inbound END_STREAM on an Open stream, on a DATA frame or on a
\* trailers HEADERS frame, moves the stream to HalfClosedRemote; an Open
\* stream leaves the table only by RST_STREAM (the removal without one
\* comes with the second END_STREAM, when the stream is half closed)
C24_EndStreamHalfClosesRemote ==
    /\ [][\A s \in StreamSids :
            (SendDoneOnOpen(s, "end_stream") \/ SendDoneOnOpen(s, "trailers"))
                => (s \in DOMAIN streams'
                    /\ streams'[s] = "HalfClosedRemote")]_vars
    /\ [][\A s \in StreamSids :
            (/\ s \in DOMAIN streams /\ streams[s] = "Open"
             /\ s \notin DOMAIN streams')
                => RstStreamInStep(s)]_vars

\* the Processor takes frame f from the frame channel in process_loop
TakesFrame(f) ==
    /\ ProcessPolled /\ ppc = "loop"
    /\ frameCh # <<>> /\ Head(frameCh) = f
    /\ frameCh' = Tail(frameCh)

\* the Processor takes a DATA frame for a stream whose state is in sts
TakesDataFor(sts) ==
    /\ frameCh # <<>> /\ TakesFrame(Head(frameCh))
    /\ Head(frameCh).ty = "Data"
    /\ Head(frameCh).sid \in DOMAIN streams
    /\ streams[Head(frameCh).sid] \in sts

\* the Processor completes the send of a Piece of stream s that came with
\* (es = TRUE) or without END_STREAM, the stream being in state st
PieceSent(s, es, st) ==
    /\ ProcessPolled /\ ppc = "send" /\ ppc' # "send"
    /\ pend.sid = s /\ pend.item[1] = "Piece"
    /\ pend.after = (IF es THEN "end_stream" ELSE "none")
    /\ s \in DOMAIN streams /\ streams[s] = st

\* C25: a DATA frame for a stream in Open or HalfClosedLocal has its payload
\* sent as one Piece on the stream's incoming channel; once sent, END_STREAM
\* moves an Open stream to HalfClosedRemote and removes a HalfClosedLocal
\* one, and without END_STREAM the stream table is unchanged
C25_DataForwardedAsPiece ==
    /\ [][TakesDataFor({"Open", "HalfClosedLocal"}) =>
            LET f == Head(frameCh) IN
            /\ ppc' = "send" /\ pres' = "none"
            /\ pend'.active /\ pend'.sid = f.sid
            /\ pend'.item = <<"Piece", f.payload>>
            /\ pend'.after = (IF "EndStream" \in f.flags
                              THEN "end_stream" ELSE "none")
            /\ streams' = streams /\ out' = out]_vars
    /\ [][\A s \in StreamSids : \A es \in BOOLEAN :
            \A st \in {"Open", "HalfClosedLocal"} :
            PieceSent(s, es, st) =>
                /\ ppc' = "loop" /\ pres' = "none" /\ out' = out
                /\ ~HandlerReturned(s)
                      => incoming'[s] = Append(incoming[s], pend.item)
                /\ (es /\ st = "Open") =>
                      streams' = [streams EXCEPT ![s] = "HalfClosedRemote"]
                /\ (es /\ st = "HalfClosedLocal") =>
                      streams' = Remove(streams, s)
                /\ ~es => streams' = streams]_vars

\* DATA with END_STREAM was forwarded on a HalfClosedLocal stream, which is
\* gone, while the handler still holds the body
C25_Witness ==
    /\ 1 \notin DOMAIN streams /\ 1 \in DOMAIN incoming
    /\ incoming[1] = <<<<"Piece", <<7>>>>>>
    /\ \E i \in 1..Len(out) :
          out[i].ty = "Data" /\ out[i].sid = 1 /\ "EndStream" \in out[i].flags
    /\ ppc = "loop" /\ pres = "none"

\* C26: a DATA frame for a HalfClosedRemote stream is answered with one
\* RST_STREAM frame for that stream carrying STREAM_CLOSED; nothing is
\* forwarded, the Processor goes on with its loop and no GOAWAY is started
C26_DataOnHalfClosedRemote ==
    [][TakesDataFor({"HalfClosedRemote"}) =>
        /\ out' = Append(out, Frame("RstStream", {}, Head(frameCh).sid,
                                    <<"STREAM_CLOSED">>))
        /\ ppc' = "loop" /\ pres' = "none"
        /\ incoming' = incoming
        /\ UNCHANGED workVars]_vars

\* the RST_STREAM answering DATA on the half-closed stream 1 is written and
\* the connection is being served
C26_Witness ==
    /\ \E i \in 1..Len(out) :
          /\ out[i].ty = "RstStream" /\ out[i].sid = 1
          /\ out[i].payload = <<"STREAM_CLOSED">>
    /\ wpc = "select" /\ ppc = "loop" /\ pres = "none"
    /\ ~GoAwayWritten

\* C27: a DATA frame whose stream id is not in the stream table ends the
\* Processor with the connection error StreamClosed; nothing is forwarded
\* to a handler and the stream table is not changed
C27_DataOnUnknownStream ==
    [][(/\ frameCh # <<>> /\ TakesFrame(Head(frameCh))
        /\ Head(frameCh).ty = "Data"
        /\ Head(frameCh).sid \notin DOMAIN streams) =>
            /\ ppc' = "done" /\ pres' = "StreamClosed"
            /\ incoming' = incoming /\ ~pend'.active
            /\ streams' = streams /\ out' = out]_vars

\* the Processor ended with StreamClosed although no header block was ever
\* started: the error comes from a DATA frame
C27_Witness ==
    /\ ppc = "done" /\ pres = "StreamClosed"
    /\ hblock.n = 0 /\ streams = <<>>

\* the HEADERS frame f gets past the PRIORITY checks made before the stream
\* table is looked up
PassesPriorityChecks(f) ==
    "Priority" \in f.flags =>
        /\ PrioritySpecParse(f.payload).ok
        /\ PrioritySpecParse(f.payload).stream_dependency # f.sid

\* the Processor takes a HEADERS frame whose stream id is not in the table
TakesHeadersForUnknown ==
    /\ frameCh # <<>> /\ TakesFrame(Head(frameCh))
    /\ Head(frameCh).ty = "Headers"
    /\ Head(frameCh).sid \notin DOMAIN streams
    /\ PassesPriorityChecks(Head(frameCh))

\* C28: a HEADERS frame whose stream id is not in the stream table ends the
\* Processor with ClientSidShouldBeOdd when the id is even, with
\* StreamClosed when it is odd and equal to last_stream_id, and with
\* ClientSidShouldBeNumericallyIncreasing when it is odd and below it; in
\* these cases no stream or handler is created, nothing is written and
\* last_stream_id is unchanged
C28_HeadersIdErrors ==
    [][TakesHeadersForUnknown =>
        LET sid == Head(frameCh).sid
            even == sid % 2 = 0
        IN  /\ even => pres' = "ClientSidShouldBeOdd"
            /\ (~even /\ sid = last_stream_id) => pres' = "StreamClosed"
            /\ (~even /\ sid < last_stream_id) =>
                    pres' = "ClientSidShouldBeNumericallyIncreasing"
            /\ (even \/ sid <= last_stream_id) =>
                    /\ ppc' = "done"
                    /\ streams' = streams /\ handlers' = handlers
                    /\ incoming' = incoming /\ out' = out
                    /\ last_stream_id' = last_stream_id
                    /\ hblock' = hblock]_vars

\* stream 3 was accepted and a later HEADERS frame for stream 1 ended the
\* Processor
C28_Witness ==
    /\ ppc = "done" /\ pres = "ClientSidShouldBeNumericallyIncreasing"
    /\ last_stream_id = 3 /\ 3 \in DOMAIN streams /\ 1 \notin DOMAIN streams

\* the Processor takes a HEADERS frame without END_STREAM for a stream that
\* is Open or HalfClosedLocal
TakesTrailersWithoutEndStream ==
    /\ frameCh # <<>> /\ TakesFrame(Head(frameCh))
    /\ Head(frameCh).ty = "Headers"
    /\ "EndStream" \notin Head(frameCh).flags
    /\ Head(frameCh).sid \in DOMAIN streams
    /\ streams[Head(frameCh).sid] \in {"Open", "HalfClosedLocal"}
    /\ PassesPriorityChecks(Head(frameCh))

\* read_headers, skipping a trailers block, takes one more frame of it
SkipsTrailersFrame ==
    /\ ProcessPolled /\ ppc = "read_headers"
    /\ rh.hot = "Trailers" /\ rh.mode = "Skip"
    /\ frameCh # <<>> /\ frameCh' = Tail(frameCh)
    /\ Head(frameCh).ty = "Continuation"
    /\ Head(frameCh).sid = rh.stream_id

\* C29: a HEADERS frame without END_STREAM for a stream in Open or
\* HalfClosedLocal is answered with one RST_STREAM frame for that stream
\* carrying the code of TrailersNotEndStream; the header block is then read
\* to its end in Skip mode, nothing is sent on an incoming channel, and the
\* Processor goes on without a result and without a GOAWAY
C29_TrailersWithoutEndStream ==
    /\ [][TakesTrailersWithoutEndStream =>
            LET f == Head(frameCh) IN
            /\ out' = Append(out, Frame("RstStream", {}, f.sid,
                                <<StreamErrorCode("TrailersNotEndStream")>>))
            /\ incoming' = incoming /\ ~pend'.active
            /\ pres' = "none" /\ UNCHANGED workVars
            /\ hblock'.hot = "Trailers" /\ hblock'.mode = "Skip"
            /\ hblock'.decoded = <<>>
            /\ IF "EndHeaders" \in f.flags
               THEN ppc' = "loop"
               ELSE /\ ppc' = "read_headers"
                    /\ rh'.hot = "Trailers" /\ rh'.mode = "Skip"
                    /\ rh'.stream_id = f.sid]_vars
    /\ [][SkipsTrailersFrame =>
            /\ out' = out /\ incoming' = incoming /\ ~pend'.active
            /\ pres' = "none" /\ UNCHANGED workVars
            /\ hblock'.decoded = <<>>
            /\ IF "EndHeaders" \in Head(frameCh).flags
               THEN ppc' = "loop"
               ELSE ppc' = "read_headers" /\ rh'.mode = "Skip"]_vars

\* trailers without END_STREAM came for stream 3 in two frames: the stream was
\* reset, the block skipped to its end, and the connection is being served
C29_Witness ==
    /\ hblock.sid = 3 /\ hblock.hot = "Trailers" /\ hblock.mode = "Skip"
    /\ hblock.done /\ Len(hblock.frags) = 2
    /\ \E i \in 1..Len(out) : out[i].ty = "RstStream" /\ out[i].sid = 3
    /\ wpc = "select" /\ ppc = "loop" /\ pres = "none"
    /\ ~GoAwayWritten

\* C30: handling a BodyEnd event of stream s appends exactly one DATA frame
\* for s with END_STREAM and an empty payload; s goes from Open to
\* HalfClosedLocal with its incoming channel and sender as they were, or, if
\* HalfClosedRemote, leaves the table; the entry of every other stream is
\* unchanged and no stream is added
C30_BodyEndTransitions ==
    [][TakesEvent("BodyEnd") =>
        LET s == Head(evCh).stream_id IN
        /\ out' = Append(out, Frame("Data", {"EndStream"}, s, <<>>))
        /\ (s \in DOMAIN streams /\ streams[s] = "Open") =>
              /\ s \in DOMAIN streams' /\ streams'[s] = "HalfClosedLocal"
              /\ incoming' = incoming
        /\ (s \in DOMAIN streams /\ streams[s] = "HalfClosedRemote") =>
              s \notin DOMAIN streams'
        /\ DOMAIN streams' \subseteq DOMAIN streams
        /\ \A t \in DOMAIN streams \ {s} :
              t \in DOMAIN streams' /\ streams'[t] = streams[t]
        /\ ppc' = "loop" /\ pres' = "none"]_vars

\* both responses are complete: stream 1, which was Open, is HalfClosedLocal
\* and stream 3, which was HalfClosedRemote, is gone
C30_Witness ==
    /\ DOMAIN streams = {1} /\ streams[1] = "HalfClosedLocal"
    /\ 3 \in DOMAIN handlers
    /\ \E i, j \in 1..Len(out) :
          /\ out[i].ty = "Data" /\ out[i].sid = 1
          /\ "EndStream" \in out[i].flags /\ out[i].len = 0
          /\ out[j].ty = "Data" /\ out[j].sid = 3
          /\ "EndStream" \in out[j].flags /\ out[j].len = 0
    /\ ppc = "loop" /\ pres = "none"

\* the Processor takes an RST_STREAM frame of length 4
TakesRstStream ==
    /\ frameCh # <<>> /\ TakesFrame(Head(frameCh))
    /\ Head(frameCh).ty = "RstStream" /\ Head(frameCh).len = 4

\* the error item the Processor sends on an incoming channel for
\* H2StreamError::ReceivedRstStream
ReceivedRstStream == <<"Err", <<>>>>

\* C31: an RST_STREAM frame of length 4 for a stream in the table removes
\* the stream; if the stream was Open or HalfClosedLocal the error
\* ReceivedRstStream is sent on its incoming channel and, the handler still
\* holding the receiver, queued there; for a stream id that is not in the
\* table the Processor ends with RstStreamForUnknownStream and the table is
\* unchanged
C31_RstStreamReceived ==
    /\ [][TakesRstStream =>
            LET sid == Head(frameCh).sid IN
            IF sid \in DOMAIN streams
            THEN /\ streams' = Remove(streams, sid)
                 /\ pres' = "none" /\ out' = out
                 /\ IF streams[sid] \in {"Open", "HalfClosedLocal"}
                    THEN /\ ppc' = "send"
                         /\ pend'.active /\ pend'.sid = sid
                         /\ pend'.item = ReceivedRstStream
                    ELSE ppc' = "loop" /\ incoming' = incoming
            ELSE /\ ppc' = "done" /\ pres' = "RstStreamForUnknownStream"
                 /\ streams' = streams /\ incoming' = incoming
                 /\ out' = out]_vars
    /\ [][(/\ ProcessPolled /\ ppc = "send" /\ ppc' # "send"
            /\ pend.item = ReceivedRstStream
            /\ ~HandlerReturned(pend.sid)) =>
                /\ incoming'[pend.sid] =
                        Append(incoming[pend.sid], ReceivedRstStream)
                /\ streams' = streams
                /\ ppc' = "loop" /\ pres' = "none"]_vars

\* stream 1, reset by the peer while it was open, is gone and the error is
\* queued for its handler
C31_Witness ==
    /\ 1 \notin DOMAIN streams /\ 1 \in DOMAIN incoming
    /\ incoming[1] = <<ReceivedRstStream>>
    /\ ppc = "loop" /\ pres = "none" /\ out = <<out[1]>>

\* the Processor takes a frame of type ty
TakesFrameOfType(ty) ==
    /\ frameCh # <<>> /\ TakesFrame(Head(frameCh))
    /\ Head(frameCh).ty = ty

\* the Processor step changes nothing but the frame channel: no connection
\* state, no frame written, nothing sent to or spawned for a handler
ProcessorIgnoresFrame ==
    /\ ppc' = "loop" /\ pres' = "none"
    /\ UNCHANGED <<connVars, out, incoming, handlers, evCh, rh, pend,
                   workVars>>

\* C32: a WINDOW_UPDATE frame ends the Processor with
\* WindowUpdateInvalidLength when its payload is not 4 bytes long, with
\* WindowUpdateZeroIncrement when its 31-bit increment is 0, and with
\* WindowUpdateForUnknownStream when it names a stream other than 0 that is
\* not in the table; any other WINDOW_UPDATE changes no state and writes no
\* frame
C32_WindowUpdate ==
    [][TakesFrameOfType("WindowUpdate") =>
        LET f == Head(frameCh)
            p == f.payload
        IN  IF Len(p) # 4
            THEN ppc' = "done" /\ pres' = "WindowUpdateInvalidLength"
            ELSE IF (p[1] % 128) = 0 /\ p[2] = 0 /\ p[3] = 0 /\ p[4] = 0
            THEN ppc' = "done" /\ pres' = "WindowUpdateZeroIncrement"
            ELSE IF f.sid # CONNECTION /\ f.sid \notin DOMAIN streams
            THEN ppc' = "done" /\ pres' = "WindowUpdateForUnknownStream"
            ELSE ProcessorIgnoresFrame]_vars

\* a WINDOW_UPDATE whose increment is 0 ended the Processor
C32_Witness ==
    /\ ppc = "done" /\ pres = "WindowUpdateZeroIncrement"
    /\ 1 \in DOMAIN streams

\* C37: a frame of unknown type leaves the stream table, last_stream_id,
\* peer_settings and goaway_recv unchanged, writes no frame and does not
\* end the Processor
C37_UnknownFrameIgnored ==
    [][TakesFrameOfType("Unknown") => ProcessorIgnoresFrame]_vars

\* with stream 1 open, a frame of unknown type for it is the next frame the
\* Processor takes from the frame channel
C37_Witness ==
    /\ frameCh # <<>> /\ Head(frameCh).ty = "Unknown" /\ Head(frameCh).sid = 1
    /\ 1 \in DOMAIN streams /\ streams[1] = "Open"
    /\ ProcessPolled /\ ppc = "loop" /\ pres = "none"

\* the frame f carries the PADDED flag of a DATA or HEADERS frame
HasPadding(f) == f.ty \in {"Data", "Headers"} /\ "Padded" \in f.flags

\* the pad length byte of the padded frame f is not below the frame length,
\* or there is no pad length byte
PadTooLong(f) == f.len = 0 \/ f.payload[1] >= f.len

\* the bytes of the padded frame f between the pad length byte and the
\* trailing padding
Unpadded(f) == SubSeq(f.payload, 2, f.len - f.payload[1])

\* C33: for a DATA or HEADERS frame with PADDED, of length L and pad length
\* P, the Deframer ends with a connection error and sends nothing when
\* L = 0 or P >= L, and otherwise sends the frame with the L-1-P bytes
\* between the pad length byte and the padding as its payload; a frame
\* without PADDED is sent with its whole payload
C33_PaddingStripped ==
    /\ [](\A f \in PaddedFrames :
            LET d == Deframe(f, DefaultMaxFrameSize) IN
            IF HasPadding(f)
            THEN IF PadTooLong(f)
                 THEN ~d.ok /\ d.err \in {"PaddedFrameEmpty",
                                           "PaddedFrameTooShort"}
                 ELSE /\ d.ok /\ d.frame.payload = Unpadded(f)
                      /\ Len(d.frame.payload) = f.len - 1 - f.payload[1]
            ELSE d.ok /\ d.frame.payload = f.payload)
    /\ [][(dres = "running" /\ nread' = nread + 1) =>
            \E f \in PaddedFrames :
                IF HasPadding(f) /\ PadTooLong(f)
                THEN /\ frameCh' = frameCh
                     /\ dres' \in {"PaddedFrameEmpty", "PaddedFrameTooShort"}
                ELSE /\ dres' = "running"
                     /\ frameCh' = Append(frameCh,
                            [f EXCEPT !.payload =
                                IF HasPadding(f) THEN Unpadded(f)
                                ELSE f.payload])]_vars

\* a padded DATA frame of length 3 with one byte of padding is in the frame
\* channel with its one byte of data as payload
C33_Witness ==
    /\ frameCh # <<>>
    /\ Head(frameCh).ty = "Data" /\ "Padded" \in Head(frameCh).flags
    /\ Head(frameCh).len = 3 /\ Head(frameCh).payload = <<7>>
    /\ dres = "running"

\* the Deframer reads a frame header while the Processor is idle: every
\* frame sent so far, SETTINGS included, has been processed
DeframerReadsAfterSettings ==
    /\ dres = "running" /\ nread' = nread + 1
    /\ frameCh = <<>> /\ ppc = "loop"

\* C34: the max_frame_size the Deframer checks a frame header against is
\* the one of the peer SETTINGS the Processor applied last: a frame read
\* once the Processor has applied them is refused with FrameTooLarge
\* exactly when its length is above peer_settings.max_frame_size
C34_DeframerUsesUpdatedMaxFrameSize ==
    [][DeframerReadsAfterSettings =>
        \E f \in SizeFrames :
            IF f.len > peer_settings.max_frame_size
            THEN frameCh' = frameCh /\ dres' = "FrameTooLarge"
            ELSE frameCh' = Append(frameCh, f) /\ dres' = "running"]_vars

\* the header block bytes (one byte per header pair) are a malformed request:
\* a pseudo-header occurs twice, :path is empty, or, in trailers, there is a
\* pseudo-header at all
MalformedBlock(bytes, hot) ==
    \/ \E i, j \in 1..Len(bytes) :
          i < j /\ bytes[i] = bytes[j] /\ bytes[i] \in 1..4
    \/ \E i \in 1..Len(bytes) : bytes[i] = 6
    \/ hot = "Trailers" /\ \E i \in 1..Len(bytes) : bytes[i] \in (1..4) \cup {6}

\* the Processor takes a HEADERS frame that holds a whole header block, to be
\* processed as the request headers or the trailers of its stream
TakesWholeHeaderBlock ==
    /\ TakesFrameOfType("Headers")
    /\ "EndHeaders" \in Head(frameCh).flags
    /\ hblock'.n = hblock.n + 1 /\ hblock'.mode = "Process"

\* C35: a header block that is a malformed request (repeated pseudo-header,
\* empty :path, pseudo-header in trailers) does not make the Processor
\* panic or end: the Processor goes on with its loop
C35_MalformedRequestReported ==
    [][(TakesWholeHeaderBlock
        /\ MalformedBlock(Head(frameCh).payload, hblock'.hot))
            => (pres' = "none" /\ ppc' \in {"loop", "send"})]_vars

\* the numbers carried by the DATA frames in a sequence of frames
RECURSIVE DataNumbers(_)
DataNumbers(frames) ==
    IF frames = <<>> THEN <<>>
    ELSE IF Head(frames).ty = "Data"
    THEN <<Head(frames).payload[1]>> \o DataNumbers(Tail(frames))
    ELSE DataNumbers(Tail(frames))

\* the numbers carried by the Pieces in a sequence of body items
RECURSIVE PieceNumbers(_)
PieceNumbers(items) ==
    IF items = <<>> THEN <<>>
    ELSE IF Head(items)[1] = "Piece"
    THEN <<Head(items)[2][1]>> \o PieceNumbers(Tail(items))
    ELSE PieceNumbers(Tail(items))

\* the DATA of stream 1 on its way to the handler, oldest first: the body
\* channel, the item the Processor is sending, the frame channel
InFlight ==
    (IF 1 \in DOMAIN incoming THEN PieceNumbers(incoming[1]) ELSE <<>>)
    \o (IF pend.active THEN PieceNumbers(<<pend.item>>) ELSE <<>>)
    \o DataNumbers(frameCh)

StrictlyIncreasing(q) == \A i, j \in 1..Len(q) : i < j => q[i] < q[j]

\* C36: frames reach the Processor in the order the Deframer read them, and
\* the DATA pieces and trailers of a stream reach its handler in the order
\* their frames arrived, none lost and none twice while the handler keeps
\* reading: the frame channel grows at its end and is taken from its head,
\* the DATA on its way to the handler is in the order it was read, a DATA
\* frame or trailers taken for a stream that accepts them become the one
\* item the Processor sends next, a completed send adds that item at the
\* end of the body channel, and the body channel loses an item only to the
\* handler, from its head
C36_OrderPreserved ==
    /\ [](StrictlyIncreasing(InFlight) /\ Len(frameCh) <= FrameChanCap)
    /\ [][frameCh' # frameCh =>
            \/ /\ nread' = nread + 1
               /\ Len(frameCh') = Len(frameCh) + 1
               /\ SubSeq(frameCh', 1, Len(frameCh)) = frameCh
            \/ /\ ProcessPolled /\ ppc \in {"loop", "read_headers"}
               /\ frameCh' = Tail(frameCh)]_vars
    /\ [][TakesDataFor({"Open", "HalfClosedLocal"}) =>
            (pend'.active /\ pend'.item = <<"Piece", Head(frameCh).payload>>
             /\ incoming' = incoming)]_vars
    /\ [][TakesTrailersFor("Open") =>
            (pend'.active /\ pend'.item = <<"Trailers", Head(frameCh).payload>>
             /\ incoming' = incoming)]_vars
    /\ [][\A s \in DOMAIN incoming :
            incoming'[s] # incoming[s] =>
                \/ /\ ppc = "send" /\ pend.sid = s
                   /\ incoming'[s] = Append(incoming[s], pend.item)
                   /\ ~pend'.active
                \/ /\ ~HandlerReturned(s)
                   /\ incoming[s] # <<>> /\ incoming'[s] = Tail(incoming[s])
                   /\ pend' = pend /\ frameCh' = frameCh]_vars

\* the handler of stream 1 has taken the first DATA piece, the second, read
\* as the third frame, waits in the body channel
C36_Witness ==
    /\ nread = 3 /\ frameCh = <<>> /\ ~pend.active
    /\ 1 \in DOMAIN incoming /\ incoming[1] = <<<<"Piece", <<3>>>>>>
    /\ 1 \in DOMAIN handlers /\ ~handlers[1].returned

\* the Processor is suspended sending an item to the handler of stream s,
\* whose body channel is full
ProcessorBlockedOn(s) ==
    /\ ppc = "send" /\ pend.active /\ pend.sid = s
    /\ s \in DOMAIN incoming /\ Len(incoming[s]) >= IncomingChanCap
    /\ ~HandlerReturned(s)

\* the handler of stream s is suspended sending a response event, the event
\* channel being full
HandlerBlockedOnEvents(s) ==
    /\ s \in DOMAIN handlers /\ ~handlers[s].returned
    /\ handlers[s].enc = "SendingBodyChunk"
    /\ Len(evCh) >= EventChanCap

\* C38: in no reachable state is the Processor suspended sending on the
\* full body channel of a stream while the handler of that stream is
\* suspended sending a response event on the full event channel
C38_NoMutualBlocking ==
    \A s \in StreamSids : ~(ProcessorBlockedOn(s) /\ HandlerBlockedOnEvents(s))

\* the frames a step writes to the transport
FramesWritten ==
    {out'[i] : i \in (Len(out) + 1)..Len(out')}

\* C39: a HEADERS or DATA frame is written for stream s only while s is in
\* the stream table: once s has been removed, events of its handler produce
\* no frame
C39_FramesOnlyForStreamsInTable ==
    [][\A f \in FramesWritten :
          f.ty \in {"Headers", "Data"} => f.sid \in DOMAIN streams]_vars

\* C40: every RST_STREAM frame the server writes carries a non-zero stream
\* id
C40_RstStreamNeverOnConnection ==
    \A i \in 1..Len(out) : out[i].ty = "RstStream" => out[i].sid # CONNECTION

====
